---- MODULE Spec2Model ----
(***************************************************************************)
(* Model of the agent runtime of My-Own-Cursor:                            *)
(*   - the tool dispatch loops of src/main.py (run_repl_loop and the Coder *)
(*     and Reviewer loops of run_multi_agent_session, with _chat_stream    *)
(*     and _chat_create),                                                  *)
(*   - the interactive process controller of src/tools/shell_tool.py       *)
(*     (run_shell_command and its write_to_stdin threads).                 *)
(*   - the session memory store of src/build/lib/chat_memory.py             *)
(*     (ChatMemory: add, save, load, new_session).                         *)
(*   - the multi-agent pipeline and the end-to-end orchestrator of          *)
(*     src/main.py (run_multi_agent_session, run_end_to_end_session).      *)
(* SpecLoop runs one dispatch loop; SpecShell runs the process controller; *)
(* SpecStore runs the session memory store; SpecE2E runs the orchestrator  *)
(* and the pipeline for one goal. SpecTools runs one dispatch loop on the  *)
(* whole tool set, with tools that fail while they execute; SpecPipes runs *)
(* one call of run_shell_command at the level of the two pipes of its      *)
(* process; SpecRepl runs the session commands and the user turns of the   *)
(* REPL on a directory of session logs.                                    *)
(***************************************************************************)
EXTENDS Integers, Sequences, FiniteSets, TLC

VARIABLES
    \* ---- dispatch loop (src/main.py) ----
    loop,           \* which loop runs: "repl", "coder" or "reviewer"
    history,        \* history.messages / coder_history / reviewer_history
    pc,             \* position of the loop: "top", "dispatch", "done", "stopped", "capped", "crashed"
    iteration,      \* iterations of the for loop started in this invocation
    tool_calls,     \* reply.tool_calls of the round being dispatched
    idx,            \* index in tool_calls of the next call to execute
    requests,       \* requests that reached client.chat.completions in this invocation
    handlersRun,    \* tool handlers invoked in this invocation
    reported,       \* what the loop printed to the user about how it ended
    final_notes,    \* final_notes / review_notes: was a final answer recorded
    nextId,         \* next fresh tool call id issued by the model
    deviations,     \* input variety used so far (see MaxDeviations)
    log,            \* the messages written to the session log by history.add
    \* ---- process controller (src/tools/shell_tool.py) ----
    slot,           \* _interactive_process: [process, stdin_queue, command]
    procs,          \* every process launched so far, by handle 1..Len(procs)
                    \* (in SpecPipes: the one process, with its two pipes)
    queues,         \* every queue.Queue created so far, by index
    writers,        \* the write_to_stdin thread of each process
    main,           \* the main thread inside run_shell_command
    results,        \* the strings returned by run_shell_command, in call order
    puts,           \* the resume calls made so far, in call order
    inputCalls,     \* the calls that supplied input text while the slot held a
                    \* paused process waiting for input, in call order
    \* ---- session memory store (src/build/lib/chat_memory.py) ----
    file,           \* the text of the session's log file (empty if there is none)
    messages,       \* self.messages of the ChatMemory object in use
    session,        \* "open" once a ChatMemory object exists, "none" before
                    \* (in SpecRepl: the id of the session in use)
    clock,          \* time.time()
    ops,            \* the operations performed on the store, in order
                    \* (in SpecRepl: the lines typed at the prompt)
    foreign,        \* lines the log held at the start
    \* ---- pipeline and end-to-end orchestrator (src/main.py) ----
    orch,           \* the locals of run_end_to_end_session, its position, and the
                    \* tool rounds used so far (see MaxToolRounds)
    run,            \* the locals of run_multi_agent_session and its position
    disk,           \* the files of the working directory, by path
                    \* (in SpecRepl: the logs of the sessions directory, by id)
    chats,          \* the _chat_stream calls of the running run_multi_agent_session, in order
                    \* (in SpecRepl: the list each call of the REPL was given)
    commands        \* the shell commands run by the orchestrator, in order

loopVars  == <<loop, history, pc, iteration, tool_calls, idx, requests, handlersRun,
               reported, final_notes, nextId, deviations, log>>
shellVars == <<slot, procs, queues, writers, main, results, puts, inputCalls>>
storeVars == <<file, messages, session, clock, ops, foreign>>
e2eVars   == <<orch, run, disk, chats, commands>>
vars      == <<loopVars, shellVars, storeVars, e2eVars>>

\* the pipeline and the orchestrator before they are called
NoOrch == [pc |-> "none"]
NoRun  == [stage |-> "none"]
NoDisk == <<>>

----------------------------------------------------------------------------
(* Bounds of the model *)

\* tool calls the model requests in one response
MaxCalls == 2

\* Variety of the inputs of one run of a loop. The plain run asks for one
\* write_file call with fitting arguments in every round, over one streaming
\* request, in one user turn. Each of these costs one unit: a call that is
\* not that call, a further call in a round, a streaming failure that falls
\* back to _chat_create, a further user turn of the REPL.
MaxDeviations == 1

\* rounds of tool calls in a run of a loop on the whole tool set (SpecTools)
MaxAdvertisedRounds == 2

(* Program constants *)
ReplMaxIterations     == 10
CoderMaxIterations    == 15
ReviewerMaxIterations == 8

Loops == {"repl", "coder", "reviewer"}

maxIterations(l) ==
    CASE l = "repl"     -> ReplMaxIterations
      [] l = "coder"    -> CoderMaxIterations
      [] l = "reviewer" -> ReviewerMaxIterations

----------------------------------------------------------------------------
(* Messages and tool calls *)

\* the names the if/elif chain of a dispatch loop has a branch for
Handlers ==
    {"write_file", "write_files", "run_shell_command", "edit_file", "read_file",
     "read_files", "run_python_file", "run_code_file", "generate_project_structure"}

\* the handlers called as handler(**args); run_shell_command is fed by args.get
KwargsHandlers == Handlers \ {"run_shell_command"}

\* names the modelled model asks for: two handlers and a name without handler
ToolNames == {"write_file", "run_shell_command", "bogus_tool"}

\* tool_call.function.arguments as a text: a JSON object fitting the tool's
\* parameters, a JSON object whose keys do not fit, or text that is not JSON
ArgTexts == {"valid", "badkeys", "badjson"}

Msg(role, content, calls, id) ==
    [role |-> role, content |-> content, tool_calls |-> calls, tool_call_id |-> id]

SystemMsg == Msg("system", "prompt", <<>>, 0)
UserMsg   == Msg("user", "goal", <<>>, 0)
PlanMsg   == Msg("assistant", "plan", <<>>, 0)
FinalMsg  == Msg("assistant", "final", <<>>, 0)

AssistantToolMsg(calls) == Msg("assistant", "none", calls, 0)

ToolMsgWrongId(call, result) == Msg("tool", result, <<>>, 0)

ToolMsg(call, result) == Msg("tool", result, <<>>, call.id)

\* json.loads(tool_call.function.arguments)
JsonLoads(text) == IF text = "badjson" THEN "raise" ELSE text

\* the names of the schemas in `tools`, the tool set every loop gives to the
\* model: those of get_available_tools() and the three appended to them
Advertised ==
    {"write_file", "write_files", "edit_file", "read_file", "read_files",
     "run_shell_command", "run_python_file",
     "run_code_file", "plan_task", "generate_project_structure"}

\* arguments that fit the tool's parameters and meet a failure when the tool
\* executes: the file or folder cannot be written or created, the file is
\* missing, the edit mode is none of the three, the code file's type is not
\* supported
FaultsOf(name) ==
    CASE name \in {"write_file", "write_files"} -> {"unwritable"}
      [] name = "edit_file" -> {"missing_file", "invalid_mode", "unwritable"}
      [] name \in {"read_file", "read_files"} -> {"missing_file"}
      [] name = "run_code_file" -> {"unsupported_type"}
      [] name = "generate_project_structure" -> {"no_folder", "unwritable"}
      [] OTHER -> {}

\* the call handler(**args) of a tool on fitting arguments: the file tools and
\* run_code_file catch the failure and return an error text,
\* generate_project_structure catches nothing
Execute(name, args) ==
    CASE args = "valid" -> "ok"
      [] name = "generate_project_structure" -> "raise"
      [] OTHER -> "error"

\* the branch of the if/elif chain taken for a call whose arguments parsed:
\* the result text, or "raise" when the handler call raises
Branch(name, args) ==
    IF name \in KwargsHandlers
      THEN IF args = "badkeys" THEN "raise" ELSE Execute(name, args)
      ELSE IF name = "run_shell_command"
             THEN IF args = "badkeys" THEN "error" ELSE "ok"
             ELSE "unknown_tool"

\* one pass of the body of `for tool_call in tool_calls`
Result(call) ==
    IF JsonLoads(call.arguments) = "raise" THEN "raise"
    ELSE Branch(call.name, JsonLoads(call.arguments))

DefaultCall == [name |-> "write_file", arguments |-> "valid"]

Shapes ==
    UNION {[1..n -> [name : ToolNames, arguments : ArgTexts]] : n \in 1..MaxCalls}

Cost(shape) ==
    (Len(shape) - 1) + Cardinality({i \in 1..Len(shape) : shape[i] # DefaultCall})

\* reply.tool_calls: the model gives every call a fresh id
Calls(shape) ==
    [i \in 1..Len(shape) |->
        [id |-> nextId + i - 1, name |-> shape[i].name, arguments |-> shape[i].arguments]]

----------------------------------------------------------------------------
(* Initial states *)

InitialHistory(l) ==
    CASE l = "repl"     -> <<SystemMsg, UserMsg>>
      [] l = "coder"    -> <<SystemMsg, UserMsg, PlanMsg>>
      [] l = "reviewer" -> <<SystemMsg, UserMsg>>

\* what history.add has written when the loop starts: the system prompt and
\* the user message of the REPL session; the Coder and the Reviewer work on
\* lists of their own and write nothing
InitialLog(l) == IF l = "repl" THEN InitialHistory("repl") ELSE <<>>

LoopInit ==
    /\ loop \in Loops
    /\ history = InitialHistory(loop)
    /\ pc = "top"
    /\ iteration = 0
    /\ tool_calls = <<>>
    /\ idx = 1
    /\ requests = 0
    /\ handlersRun = 0
    /\ reported = {}
    /\ final_notes = FALSE
    /\ nextId = 1
    /\ deviations = 0
    /\ log = InitialLog(loop)
    /\ slot = [process |-> 0, stdin_queue |-> 0, command |-> "None"]
    /\ procs = <<>>
    /\ queues = <<>>
    /\ writers = <<>>
    /\ main = [pc |-> "idle", p |-> 0, output |-> <<>>]
    /\ results = <<>>
    /\ puts = <<>>
    /\ inputCalls = <<>>
    /\ file = <<>>
    /\ messages = <<>>
    /\ session = "none"
    /\ clock = 1
    /\ ops = <<>>
    /\ foreign = 0
    /\ orch = NoOrch
    /\ run = NoRun
    /\ disk = NoDisk
    /\ chats = <<>>
    /\ commands = <<>>

----------------------------------------------------------------------------
(* _chat_stream and _chat_create *)

\* What one call of _chat_stream can do: the streaming request succeeds, fails
\* with APIConnectionError, or fails otherwise and _chat_create is tried.
\* sent: requests made to client.chat.completions; ok: a response came back;
\* error: the title of the error panel printed, "" when none is.
StreamOutcomesNoFallback ==
    {[sent |-> 1, ok |-> TRUE, fallback |-> FALSE, error |-> ""],
     [sent |-> 1, ok |-> FALSE, fallback |-> FALSE, error |-> "Connection error"]}

StreamOutcomesResent ==
    {[sent |-> 1, ok |-> TRUE, fallback |-> FALSE, error |-> ""],
     [sent |-> 2, ok |-> FALSE, fallback |-> FALSE, error |-> "Connection error"],
     [sent |-> 2, ok |-> TRUE, fallback |-> TRUE, error |-> ""],
     [sent |-> 2, ok |-> FALSE, fallback |-> TRUE, error |-> "Connection error"],
     [sent |-> 2, ok |-> FALSE, fallback |-> TRUE, error |-> "Unexpected error"]}

StreamOutcomes ==
    {\* the stream succeeds
     [sent |-> 1, ok |-> TRUE, fallback |-> FALSE, error |-> ""],
     \* APIConnectionError in the stream
     [sent |-> 1, ok |-> FALSE, fallback |-> FALSE, error |-> "Connection error"],
     \* the stream fails otherwise, _chat_create succeeds
     [sent |-> 2, ok |-> TRUE, fallback |-> TRUE, error |-> ""],
     \* the stream fails otherwise, APIConnectionError in _chat_create
     [sent |-> 2, ok |-> FALSE, fallback |-> TRUE, error |-> "Connection error"],
     \* the stream fails otherwise, _chat_create fails otherwise
     [sent |-> 2, ok |-> FALSE, fallback |-> TRUE, error |-> "Unexpected error"]}

----------------------------------------------------------------------------
(* The dispatch loop *)

AppendFinalAlways(l, h) == Append(h, FinalMsg)

\* history.add("assistant", final_content) in the REPL; the Coder and the
\* Reviewer keep the final answer in final_notes / review_notes only
AppendFinal(l, h) == IF l = "repl" THEN Append(h, FinalMsg) ELSE h

InRangeInclusive(i, l) == i <= maxIterations(l)

\* `for _ in range(maxIterations)`: a further iteration is started
InRange(i, l) == i < maxIterations(l)

\* history.add(role, content) appends to history.messages and writes the
\* message to the log (the write is taken to succeed here); the Coder and the
\* Reviewer have no log
Persist(l, lg, msg) == IF l = "repl" THEN Append(lg, msg) ELSE lg

\* One iteration of the for loop up to the dispatch of the tool calls: the
\* request, then the branches `response is None`, `not tool_calls`, tool calls.
ChatRound ==
    /\ pc = "top"
    /\ InRange(iteration, loop)
    /\ iteration' = iteration + 1
    /\ \E o \in StreamOutcomes :
        LET used == IF o.fallback THEN deviations + 1 ELSE deviations IN
        /\ used <= MaxDeviations
        /\ requests' = requests + o.sent
        /\ \/ /\ ~o.ok
              /\ reported' = reported \cup {"connection_error", o.error}
              /\ pc' = "stopped"
              /\ deviations' = used
              /\ UNCHANGED <<history, tool_calls, idx, final_notes, nextId, log>>
           \/ /\ o.ok
              /\ pc' = "done"
              /\ final_notes' = TRUE
              /\ history' = AppendFinal(loop, history)
              /\ log' = Persist(loop, log, FinalMsg)
              /\ deviations' = used
              /\ UNCHANGED <<reported, tool_calls, idx, nextId>>
           \/ /\ o.ok
              /\ \E shape \in Shapes :
                  /\ used + Cost(shape) <= MaxDeviations
                  /\ deviations' = used + Cost(shape)
                  /\ tool_calls' = Calls(shape)
                  /\ nextId' = nextId + Len(shape)
                  /\ history' = Append(history, AssistantToolMsg(Calls(shape)))
              /\ idx' = 1
              /\ pc' = "dispatch"
              /\ UNCHANGED <<reported, final_notes, log>>
    /\ UNCHANGED <<loop, handlersRun, shellVars, storeVars, e2eVars>>

\* where the loop stands after the call at position i of the round
AfterCall(i) == IF i = Len(tool_calls) THEN "top" ELSE "dispatch"

\* One pass of `for tool_call in tool_calls`: parse, dispatch by name, append
\* the tool message; an exception raised on the way leaves the loop.
DispatchCall ==
    /\ pc = "dispatch"
    /\ idx <= Len(tool_calls)
    /\ LET call == tool_calls[idx]
           res  == Result(call)
       IN  IF res = "raise"
             THEN /\ pc' = "crashed"
                  /\ UNCHANGED <<history, idx, handlersRun>>
             ELSE /\ history' = Append(history, ToolMsg(call, res))
                  /\ handlersRun' = IF call.name \in Handlers THEN handlersRun + 1
                                    ELSE handlersRun
                  /\ idx' = idx + 1
                  /\ pc' = AfterCall(idx)
    /\ UNCHANGED <<loop, iteration, tool_calls, requests, reported, final_notes,
                   nextId, deviations, log, shellVars, storeVars, e2eVars>>

ExhaustedReportAll(l) == {"max_iterations"}

\* what the else clause of the for loop prints: the Coder and the Reviewer
\* loops have one, the REPL loop has none
ExhaustedReport(l) == IF l \in {"coder", "reviewer"} THEN {"max_iterations"} ELSE {}

\* range(maxIterations) is exhausted: the for loop ends without break
LoopExhausted ==
    /\ pc = "top"
    /\ ~InRange(iteration, loop)
    /\ pc' = "capped"
    /\ reported' = reported \cup ExhaustedReport(loop)
    /\ UNCHANGED <<loop, history, iteration, tool_calls, idx, requests, handlersRun,
                   final_notes, nextId, deviations, log, shellVars, storeVars, e2eVars>>

\* The REPL reads the next user message and starts a new invocation of the loop
\* on the same history.
NewTurn ==
    /\ loop = "repl"
    /\ pc \in {"done", "stopped", "capped"}
    /\ deviations < MaxDeviations
    /\ deviations' = deviations + 1
    /\ history' = Append(history, UserMsg)
    /\ log' = Persist(loop, log, UserMsg)
    /\ pc' = "top"
    /\ iteration' = 0
    /\ requests' = 0
    /\ handlersRun' = 0
    /\ reported' = {}
    /\ final_notes' = FALSE
    /\ tool_calls' = <<>>
    /\ idx' = 1
    /\ UNCHANGED <<loop, nextId, shellVars, storeVars, e2eVars>>

LoopNext == ChatRound \/ DispatchCall \/ LoopExhausted \/ NewTurn

SpecLoop == LoopInit /\ [][LoopNext]_vars

----------------------------------------------------------------------------
(* The dispatch loops on the whole tool set *)

\* the calls the model can ask for: an advertised tool, with arguments that
\* fit its parameters and let it succeed or meet one of its failures
AdvertisedCalls ==
    {c \in [name : Advertised,
            arguments : {"valid", "missing_file", "invalid_mode", "unwritable",
                         "unsupported_type", "no_folder"}] :
        c.arguments \in {"valid"} \cup FaultsOf(c.name)}

\* One iteration of the for loop up to the dispatch, as ChatRound, for a model
\* that is reached at once and asks for one advertised tool per response.
AdvertisedRound ==
    /\ pc = "top"
    /\ InRange(iteration, loop)
    /\ iteration' = iteration + 1
    /\ requests' = requests + 1
    /\ \/ /\ pc' = "done"
          /\ final_notes' = TRUE
          /\ history' = AppendFinal(loop, history)
          /\ log' = Persist(loop, log, FinalMsg)
          /\ UNCHANGED <<tool_calls, idx, nextId>>
       \/ /\ iteration < MaxAdvertisedRounds
          /\ \E c \in AdvertisedCalls :
                /\ tool_calls' = Calls(<<c>>)
                /\ history' = Append(history, AssistantToolMsg(Calls(<<c>>)))
          /\ nextId' = nextId + 1
          /\ idx' = 1
          /\ pc' = "dispatch"
          /\ UNCHANGED <<final_notes, log>>
    /\ UNCHANGED <<loop, handlersRun, reported, deviations, shellVars, storeVars, e2eVars>>

ToolsNext == AdvertisedRound \/ DispatchCall

ToolsInit ==
    /\ loop \in Loops
    /\ history = InitialHistory(loop)
    /\ pc = "top"
    /\ iteration = 0
    /\ tool_calls = <<>>
    /\ idx = 1
    /\ requests = 0
    /\ handlersRun = 0
    /\ reported = {}
    /\ final_notes = FALSE
    /\ nextId = 1
    /\ deviations = 0
    /\ log = InitialLog(loop)
    /\ slot = [process |-> 0, stdin_queue |-> 0, command |-> "None"]
    /\ procs = <<>>
    /\ queues = <<>>
    /\ writers = <<>>
    /\ main = [pc |-> "idle", p |-> 0, output |-> <<>>]
    /\ results = <<>>
    /\ puts = <<>>
    /\ inputCalls = <<>>
    /\ file = <<>>
    /\ messages = <<>>
    /\ session = "none"
    /\ clock = 1
    /\ ops = <<>>
    /\ foreign = 0
    /\ orch = NoOrch
    /\ run = NoRun
    /\ disk = NoDisk
    /\ chats = <<>>
    /\ commands = <<>>

SpecTools == ToolsInit /\ [][ToolsNext]_vars

----------------------------------------------------------------------------
(* The process controller: src/tools/shell_tool.py *)

(* Bounds of the model *)

\* calls of run_shell_command in one run
MaxShellCalls == 3

\* Texts are sequences of characters, so that lower(), strip() and the
\* substring test of the prompt detection are computed, not assumed.
UpperChars ==
    <<"A", "B", "C", "D", "E", "F", "G", "H", "I", "J", "K", "L", "M",
      "N", "O", "P", "Q", "R", "S", "T", "U", "V", "W", "X", "Y", "Z">>

LowerChars ==
    <<"a", "b", "c", "d", "e", "f", "g", "h", "i", "j", "k", "l", "m",
      "n", "o", "p", "q", "r", "s", "t", "u", "v", "w", "x", "y", "z">>

\* str.lower() on one character
LowerChar(c) ==
    IF \E i \in 1..Len(UpperChars) : UpperChars[i] = c
      THEN LowerChars[CHOOSE i \in 1..Len(UpperChars) : UpperChars[i] = c]
      ELSE c

LowerNothing(s) == s

\* line.lower()
Lower(s) == [i \in 1..Len(s) |-> LowerChar(s[i])]

\* `m in s` for strings
IsSubstring(m, s) ==
    \E off \in 0..(Len(s) - Len(m)) : \A j \in 1..Len(m) : s[off + j] = m[j]

Whitespace == {" ", "\n"}

RECURSIVE LStrip(_)
LStrip(s) == IF s # <<>> /\ Head(s) \in Whitespace THEN LStrip(Tail(s)) ELSE s

RECURSIVE RStrip(_)
RStrip(s) ==
    IF s # <<>> /\ s[Len(s)] \in Whitespace THEN RStrip(SubSeq(s, 1, Len(s) - 1)) ELSE s

\* str.strip()
Strip(s) == RStrip(LStrip(s))

RECURSIVE Join(_)
\* "".join(output)
Join(lines) == IF lines = <<>> THEN <<>> ELSE Head(lines) \o Join(Tail(lines))

\* the list of prompt markers of run_shell_command
PromptMarkers ==
    {<<"[", "y", "/", "n", "]">>,
     <<"p", "r", "e", "s", "s", " ", "e", "n", "t", "e", "r">>,
     <<"d", "o", " ", "y", "o", "u", " ", "w", "a", "n", "t">>,
     <<"c", "o", "n", "t", "i", "n", "u", "e", "?">>}

\* any(prompt in line.lower() for prompt in [...])
DetectPrompt(line) == \E m \in PromptMarkers : IsSubstring(m, Lower(line))

(* The commands of the model: what the process does, step by step *)

OkLine     == <<"o", "k", "\n">>
PromptLine == <<"G", "o", "?", " ", "[", "Y", "/", "n", "]", " ", "\n">>
DoneLine   == <<"d", "o", "n", "e", "\n">>
MoreLine   == <<" ", "m", "o", "r", "e", "\n">>
ErrText    == <<"b", "a", "d", "\n">>

Out(line) == [op |-> "out", line |-> line]
In        == [op |-> "in", line |-> <<>>]

Commands == {"echo", "fail", "ask"}

\* echo prints two lines; fail prints a line and exits 1 with a message on
\* stderr; ask prints a line, asks a yes/no question, reads the answer from
\* its stdin and prints a last line
Script(cmd) ==
    CASE cmd = "echo" -> <<Out(OkLine), Out(MoreLine)>>
      [] cmd = "fail" -> <<Out(OkLine)>>
      [] cmd = "ask"  -> <<Out(OkLine), Out(PromptLine), In, Out(DoneLine)>>

ExitCode(cmd) == IF cmd = "fail" THEN 1 ELSE 0

Stderr(cmd) == IF cmd = "fail" THEN ErrText ELSE <<>>

\* the user_input argument: not given (None), or a text
NoInput     == [given |-> FALSE, text |-> <<>>]
Text(chars) == [given |-> TRUE, text |-> chars]
UserInputs  == {NoInput, Text(<<>>), Text(<<"y">>), Text(<<"n">>)}

\* `if user_input` on None or a str
Truthy(input) == input.given /\ input.text # <<>>

(* Results of run_shell_command *)

Ack == [kind |-> "ack", command |-> "", text |-> <<>>]

\* the "Command paused" text: it embeds the command and line.strip()
Paused(cmd, line) == [kind |-> "paused", command |-> cmd, text |-> Strip(line)]

\* f"Error:\n{stderr.strip()}"
ErrorResult(stderr) == [kind |-> "error", command |-> "", text |-> Strip(stderr)]

OutputResultUnstripped(output) == [kind |-> "output", command |-> "", text |-> Join(output)]

\* "".join(output).strip()
OutputResult(output) == [kind |-> "output", command |-> "", text |-> Strip(Join(output))]

Uncaught == [kind |-> "raised", command |-> "", text |-> <<>>]

\* `except Exception as e: return f"Exception occurred: {str(e)}"`
ExceptionResult == [kind |-> "exception", command |-> "", text |-> <<>>]

IdleMain == [pc |-> "idle", p |-> 0, output |-> <<>>]

NoSlot == [process |-> 0, stdin_queue |-> 0, command |-> "None"]

\* subprocess.Popen(command, shell=True, stdout=PIPE, stderr=PIPE, stdin=PIPE)
NewProcess(cmd) ==
    [command |-> cmd,
     step    |-> 1,          \* the next step of Script(cmd)
     alive   |-> TRUE,
     code    |-> 0,          \* exit code once not alive
     pipe    |-> <<>>,       \* lines written to stdout and not yet read
     open    |-> TRUE,       \* process.stdout not closed by the reader
     nread   |-> 0,          \* lines the reader took from stdout
     stdin   |-> <<>>,       \* texts written to process.stdin, in order
     taken   |-> 0,          \* how many of them the process has read
     outcome |-> "running"]  \* how the run of the command returned

NewWriter == [pc |-> "eval", q |-> 0, item |-> <<>>]

ShellCalls == Len(results) + (IF main.pc = "idle" THEN 0 ELSE 1)

\* _interactive_process["stdin_queue"] as a thread reads it
SlotQueue(s) == s.stdin_queue

\* process p is alive and blocked reading its stdin, and no text is on its
\* way to it
WaitsForInput(p) ==
    /\ procs[p].alive
    /\ procs[p].step <= Len(Script(procs[p].command))
    /\ Script(procs[p].command)[procs[p].step].op = "in"
    /\ procs[p].taken = Len(procs[p].stdin)
    /\ queues[p] = <<>>
    /\ writers[p].pc # "write"

\* the controller is in WaitingForInput: the slot holds a process whose run
\* was paused by a prompt and that waits for input
InWaitingForInput ==
    /\ slot.process # 0
    /\ procs[slot.process].outcome = "paused"
    /\ WaitsForInput(slot.process)

\* what a call that supplied input text in WaitingForInput did: the text, did
\* it launch a process, did it queue the text and return the acknowledgement,
\* the slot before and after
InputCall(input, launched, acked, after) ==
    [text |-> input.text, launched |-> launched, acked |-> acked,
     before |-> slot, after |-> after]

\* the queue put of `_interactive_process["stdin_queue"].put(user_input + "\n")`
Put(qs, q, text) == [qs EXCEPT ![q] = Append(@, text \o <<"\n">>)]

\* run_shell_command(command, user_input) with `user_input and process` true:
\* the text is queued and the acknowledgement returned
Resume ==
    /\ main.pc = "idle"
    /\ ShellCalls < MaxShellCalls
    /\ \E input \in UserInputs :
        /\ Truthy(input)
        /\ slot.process # 0
        /\ queues' = Put(queues, slot.stdin_queue, input.text)
        /\ puts' = Append(puts, [text    |-> input.text,
                                 p       |-> slot.process,
                                 at      |-> Len(results) + 1,
                                 outcome |-> procs[slot.process].outcome,
                                 alive   |-> procs[slot.process].alive,
                                 waiting |-> WaitsForInput(slot.process)])
        /\ inputCalls' = IF InWaitingForInput
                           THEN Append(inputCalls, InputCall(input, FALSE, TRUE, slot))
                           ELSE inputCalls
    /\ results' = Append(results, Ack)
    /\ UNCHANGED <<slot, procs, writers, main, loopVars, storeVars, e2eVars>>

\* run_shell_command(command, user_input) otherwise: Popen, the slot is
\* overwritten, the writer thread is started and the read loop entered
Launch ==
    /\ main.pc = "idle"
    /\ ShellCalls < MaxShellCalls
    /\ \E cmd \in Commands, input \in UserInputs :
        /\ ~(Truthy(input) /\ slot.process # 0)
        /\ procs' = Append(procs, NewProcess(cmd))
        /\ queues' = Append(queues, <<>>)
        /\ writers' = Append(writers, NewWriter)
        /\ slot' = [process |-> Len(procs) + 1, stdin_queue |-> Len(queues) + 1,
                    command |-> cmd]
        /\ main' = [pc |-> "reading", p |-> Len(procs) + 1, output |-> <<>>]
        /\ inputCalls' = IF input.given /\ InWaitingForInput
                           THEN Append(inputCalls, InputCall(input, TRUE, FALSE, slot'))
                           ELSE inputCalls
    /\ UNCHANGED <<results, puts, loopVars, storeVars, e2eVars>>

\* run_shell_command(None, ...): Popen raises inside the try, the except
\* clause returns the exception text; the slot is not touched
LaunchFails ==
    /\ main.pc = "idle"
    /\ ShellCalls < MaxShellCalls
    /\ \E input \in UserInputs :
        /\ ~(Truthy(input) /\ slot.process # 0)
        /\ inputCalls' = IF input.given /\ InWaitingForInput
                           THEN Append(inputCalls, InputCall(input, FALSE, FALSE, slot))
                           ELSE inputCalls
    /\ results' = Append(results, ExceptionResult)
    /\ UNCHANGED <<slot, procs, queues, writers, main, puts, loopVars, storeVars, e2eVars>>

\* one pass of `for line in process.stdout`: the line is kept; a line with a
\* prompt marker closes stdout and returns the paused result
ReadLine ==
    /\ main.pc = "reading"
    /\ procs[main.p].pipe # <<>>
    /\ LET p    == main.p
           line == Head(procs[p].pipe)
       IN  IF DetectPrompt(line)
             THEN /\ procs' = [procs EXCEPT ![p].pipe = <<>>, ![p].open = FALSE,
                                            ![p].nread = @ + 1, ![p].outcome = "paused"]
                  /\ results' = Append(results, Paused(procs[p].command, line))
                  /\ main' = IdleMain
             ELSE /\ procs' = [procs EXCEPT ![p].pipe = Tail(@), ![p].nread = @ + 1]
                  /\ main' = [main EXCEPT !.output = Append(@, line)]
                  /\ UNCHANGED results
    /\ UNCHANGED <<slot, queues, writers, puts, inputCalls, loopVars, storeVars, e2eVars>>

\* end of stdout: stderr is read and the exit code decides the result
ReadEnd ==
    /\ main.pc = "reading"
    /\ procs[main.p].pipe = <<>>
    /\ ~procs[main.p].alive
    /\ LET p == main.p IN
        IF procs[p].code # 0
          THEN /\ results' = Append(results, ErrorResult(Stderr(procs[p].command)))
               /\ procs' = [procs EXCEPT ![p].outcome = "failed"]
          ELSE /\ results' = Append(results, OutputResult(main.output))
               /\ procs' = [procs EXCEPT ![p].outcome = "completed"]
    /\ main' = IdleMain
    /\ UNCHANGED <<slot, queues, writers, puts, inputCalls, loopVars, storeVars, e2eVars>>

(* The launched processes *)

ProcCanStep(p) ==
    /\ procs[p].alive
    /\ procs[p].step <= Len(Script(procs[p].command)) =>
         (Script(procs[p].command)[procs[p].step].op = "in" =>
             procs[p].taken < Len(procs[p].stdin))

\* the process p performs its next step: it writes a line to stdout, reads a
\* line from stdin, or exits. Writing to a stdout the reader has closed fails:
\* the process is killed by SIGPIPE or goes on without the line.
ProcStep(p) ==
    /\ ProcCanStep(p)
    /\ LET pr == procs[p]
           sc == Script(pr.command)
       IN  IF pr.step > Len(sc)
             THEN procs' = [procs EXCEPT ![p].alive = FALSE, ![p].code = ExitCode(pr.command)]
           ELSE IF sc[pr.step].op = "in"
             THEN procs' = [procs EXCEPT ![p].taken = @ + 1, ![p].step = @ + 1]
           ELSE IF pr.open
             THEN procs' = [procs EXCEPT ![p].pipe = Append(@, sc[pr.step].line),
                                         ![p].step = @ + 1]
           ELSE \/ procs' = [procs EXCEPT ![p].alive = FALSE, ![p].code = -13]
                \/ procs' = [procs EXCEPT ![p].step = @ + 1]
    /\ UNCHANGED <<slot, queues, writers, main, results, puts, inputCalls, loopVars, storeVars, e2eVars>>

(* The write_to_stdin threads: thread i was started for process i *)

\* `_interactive_process["stdin_queue"]` is read: the thread will wait on the
\* queue the slot holds now
WriterEval(i) ==
    /\ writers[i].pc = "eval"
    /\ writers' = [writers EXCEPT ![i].pc = "get", ![i].q = SlotQueue(slot)]
    /\ UNCHANGED <<slot, procs, queues, main, results, puts, inputCalls, loopVars, storeVars, e2eVars>>

\* .get() returns the oldest text of that queue
WriterGet(i) ==
    /\ writers[i].pc = "get"
    /\ queues[writers[i].q] # <<>>
    /\ writers' = [writers EXCEPT ![i].pc = "write", ![i].item = Head(queues[writers[i].q])]
    /\ queues' = [queues EXCEPT ![writers[i].q] = Tail(@)]
    /\ UNCHANGED <<slot, procs, main, results, puts, inputCalls, loopVars, storeVars, e2eVars>>

\* process.stdin.write(user_input); process.stdin.flush(): the text reaches
\* the stdin of process i, or the write raises (the process is gone) and the
\* thread ends
WriterWrite(i) ==
    /\ writers[i].pc = "write"
    /\ IF procs[i].alive
         THEN /\ procs' = [procs EXCEPT ![i].stdin = Append(@, writers[i].item)]
              /\ writers' = [writers EXCEPT ![i].pc = "eval", ![i].item = <<>>]
         ELSE /\ writers' = [writers EXCEPT ![i].pc = "ended", ![i].item = <<>>]
              /\ UNCHANGED procs
    /\ UNCHANGED <<slot, queues, main, results, puts, inputCalls, loopVars, storeVars, e2eVars>>

WriterCanStep(i) ==
    \/ writers[i].pc \in {"eval", "write"}
    \/ writers[i].pc = "get" /\ queues[writers[i].q] # <<>>

ShellNext ==
    \/ Resume \/ Launch \/ LaunchFails \/ ReadLine \/ ReadEnd
    \/ \E p \in 1..Len(procs) : ProcStep(p)
    \/ \E i \in 1..Len(writers) : WriterEval(i) \/ WriterGet(i) \/ WriterWrite(i)

ShellInit ==
    /\ slot = NoSlot
    /\ procs = <<>>
    /\ queues = <<>>
    /\ writers = <<>>
    /\ main = IdleMain
    /\ results = <<>>
    /\ puts = <<>>
    /\ inputCalls = <<>>
    /\ file = <<>>
    /\ messages = <<>>
    /\ session = "none"
    /\ clock = 1
    /\ ops = <<>>
    /\ foreign = 0
    /\ loop = "repl"
    /\ history = InitialHistory("repl")
    /\ pc = "top"
    /\ iteration = 0
    /\ tool_calls = <<>>
    /\ idx = 1
    /\ requests = 0
    /\ handlersRun = 0
    /\ reported = {}
    /\ final_notes = FALSE
    /\ nextId = 1
    /\ deviations = 0
    /\ log = InitialLog("repl")
    /\ orch = NoOrch
    /\ run = NoRun
    /\ disk = NoDisk
    /\ chats = <<>>
    /\ commands = <<>>

SpecShell == ShellInit /\ [][ShellNext]_vars

----------------------------------------------------------------------------
(* The pipes of one run of run_shell_command: src/tools/shell_tool.py *)

\* blocks a pipe of the operating system holds before a write to it blocks
PipeCapacity == 2

\* blocks the command writes in all
MaxWrites == 4

\* what a command that reads no input and prints no prompt marker does: it
\* writes blocks to its stdout and to its stderr, in some order, and exits
WritePlans == UNION {[1..n -> {"stdout", "stderr"}] : n \in 0..MaxWrites}

\* the process of Popen(command, stdout=PIPE, stderr=PIPE, ...): its plan, its
\* next write, its exit code, and the blocks that wait in its two pipes
PipeProcess(plan, code) ==
    [plan |-> plan, step |-> 1, code |-> code, alive |-> TRUE, stdout |-> 0, stderr |-> 0]

\* the process writes its next block; the write blocks while the pipe is full
ProcessWrites ==
    /\ main.pc = "reading"
    /\ procs[1].alive
    /\ procs[1].step <= Len(procs[1].plan)
    /\ LET to == procs[1].plan[procs[1].step] IN
         /\ procs[1][to] < PipeCapacity
         /\ procs' = [procs EXCEPT ![1][to] = @ + 1, ![1].step = @ + 1]
    /\ UNCHANGED <<slot, queues, writers, main, results, puts, inputCalls,
                   loopVars, storeVars, e2eVars>>

\* the process has written everything and exits: its ends of the pipes close
ProcessExits ==
    /\ main.pc = "reading"
    /\ procs[1].alive
    /\ procs[1].step > Len(procs[1].plan)
    /\ procs' = [procs EXCEPT ![1].alive = FALSE]
    /\ UNCHANGED <<slot, queues, writers, main, results, puts, inputCalls,
                   loopVars, storeVars, e2eVars>>

\* one pass of `for line in process.stdout` on a line without prompt marker
ReaderTakesLine ==
    /\ main.pc = "reading"
    /\ procs[1].stdout > 0
    /\ procs' = [procs EXCEPT ![1].stdout = @ - 1]
    /\ main' = [main EXCEPT !.output = Append(@, OkLine)]
    /\ UNCHANGED <<slot, queues, writers, results, puts, inputCalls,
                   loopVars, storeVars, e2eVars>>

\* stdout is at end-of-stream, which it reaches when the process has exited:
\* process.stderr.read(), process.wait() and the return
ReaderAtEnd ==
    /\ main.pc = "reading"
    /\ procs[1].stdout = 0
    /\ ~procs[1].alive
    /\ procs' = [procs EXCEPT ![1].stderr = 0]
    /\ results' = Append(results, IF procs[1].code # 0 THEN ErrorResult(ErrText)
                                  ELSE OutputResult(main.output))
    /\ main' = IdleMain
    /\ UNCHANGED <<slot, queues, writers, puts, inputCalls, loopVars, storeVars, e2eVars>>

PipesNext == ProcessWrites \/ ProcessExits \/ ReaderTakesLine \/ ReaderAtEnd

\* run_shell_command(command) has launched the process and entered its read loop
PipesInit ==
    /\ procs \in {<<PipeProcess(plan, code)>> : plan \in WritePlans, code \in {0, 1}}
    /\ main = [pc |-> "reading", p |-> 1, output |-> <<>>]
    /\ results = <<>>
    /\ slot = [process |-> 1, stdin_queue |-> 1, command |-> "echo"]
    /\ queues = <<<<>>>>
    /\ writers = <<NewWriter>>
    /\ puts = <<>>
    /\ inputCalls = <<>>
    /\ loop = "repl"
    /\ history = InitialHistory("repl")
    /\ pc = "top"
    /\ iteration = 0
    /\ tool_calls = <<>>
    /\ idx = 1
    /\ requests = 0
    /\ handlersRun = 0
    /\ reported = {}
    /\ final_notes = FALSE
    /\ nextId = 1
    /\ deviations = 0
    /\ log = InitialLog("repl")
    /\ file = <<>>
    /\ messages = <<>>
    /\ session = "none"
    /\ clock = 1
    /\ ops = <<>>
    /\ foreign = 0
    /\ orch = NoOrch
    /\ run = NoRun
    /\ disk = NoDisk
    /\ chats = <<>>
    /\ commands = <<>>

\* the process and the reader are threads of control the scheduler runs: a
\* step that stays possible is taken
SpecPipes == PipesInit /\ [][PipesNext]_vars /\ WF_vars(PipesNext)

----------------------------------------------------------------------------
(* The session memory store: src/build/lib/chat_memory.py *)

(* Bounds of the model *)

\* lines the log holds at the start plus operations that change the store
MaxStoreOps == 3

(* Texts of the store are sequences of characters *)

Role    == <<"r", "o", "l", "e">>
Content == <<"c", "o", "n", "t", "e", "n", "t">>
Ts      == <<"t", "s">>
Other   == <<"a">>

\* the escaping json.dumps applies inside a string
RECURSIVE Escape(_)
Escape(s) ==
    IF s = <<>> THEN <<>>
    ELSE IF Head(s) = "\n" THEN <<"\\", "n">> \o Escape(Tail(s))
    ELSE IF Head(s) = "\\" THEN <<"\\", "\\">> \o Escape(Tail(s))
    ELSE <<Head(s)>> \o Escape(Tail(s))

UnescapeNothing(s) == s

\* the unescaping json.loads applies inside a string
RECURSIVE Unescape(_)
Unescape(s) ==
    IF s = <<>> THEN <<>>
    ELSE IF Head(s) = "\\" /\ Len(s) >= 2
      THEN <<IF s[2] = "n" THEN "\n" ELSE s[2]>> \o Unescape(Tail(Tail(s)))
    ELSE <<Head(s)>> \o Unescape(Tail(s))

(* Python values: str, float, None and dict *)

PyStr(s)  == [type |-> "str",  s |-> s,    n |-> 0, d |-> <<>>]
PyNum(n)  == [type |-> "num",  s |-> <<>>, n |-> n, d |-> <<>>]
PyNone    == [type |-> "none", s |-> <<>>, n |-> 0, d |-> <<>>]
PyDict(d) == [type |-> "dict", s |-> <<>>, n |-> 0, d |-> d]

\* msg = {"role": role, "content": content, "ts": time.time()}
Message(role, content, ts) ==
    PyDict(Role :> PyStr(role) @@ Content :> PyStr(content) @@ Ts :> PyNum(ts))

(* The text of the log: a sequence of JSON tokens, whitespace and newlines *)

Tok(t, s, n) == [t |-> t, s |-> s, n |-> n]

StrTok(s) == Tok("str", s, 0)
NumTok(n) == Tok("num", <<>>, n)
NullTok   == Tok("null", <<>>, 0)
LBrace    == Tok("{", <<>>, 0)
RBrace    == Tok("}", <<>>, 0)
WS        == Tok("ws", <<>>, 0)
NL        == Tok("nl", <<>>, 0)
\* bytes that are no UTF-8 text
BadBytes  == Tok("badbytes", <<>>, 0)

IsScalar(tok) == tok.t \in {"str", "num", "null"}

ScalarTok(v) ==
    CASE v.type = "str" -> StrTok(Escape(v.s))
      [] v.type = "num" -> NumTok(v.n)
      [] OTHER          -> NullTok

ScalarVal(tok) ==
    CASE tok.t = "str" -> PyStr(Unescape(tok.s))
      [] tok.t = "num" -> PyNum(tok.n)
      [] OTHER         -> PyNone

\* the order in which the keys of a dict are written
KeyOrder == <<Role, Content, Other, Ts>>

\* json.dumps(v, ensure_ascii=False)
Dumps(v) ==
    IF v.type = "dict"
      THEN LET keys == SelectSeq(KeyOrder, LAMBDA k : k \in DOMAIN v.d)
           IN  <<LBrace>>
               \o [i \in 1..(2 * Len(keys)) |->
                     IF i % 2 = 1 THEN StrTok(Escape(keys[(i + 1) \div 2]))
                     ELSE ScalarTok(v.d[keys[i \div 2]])]
               \o <<RBrace>>
      ELSE <<ScalarTok(v)>>

ParseError == [ok |-> FALSE, v |-> PyNone]

\* json.loads(line): the value, or ok = FALSE for JSONDecodeError
Parse(line) ==
    LET toks == SelectSeq(line, LAMBDA t : t.t \notin {"ws", "nl"})
        n    == Len(toks)
        m    == (n - 2) \div 2
    IN  IF n = 1 /\ IsScalar(toks[1])
          THEN [ok |-> TRUE, v |-> ScalarVal(toks[1])]
        ELSE IF /\ n >= 2
                /\ toks[1] = LBrace
                /\ toks[n] = RBrace
                /\ (n - 2) % 2 = 0
                /\ \A i \in 1..m : toks[2 * i].t = "str" /\ IsScalar(toks[2 * i + 1])
          THEN LET key(i) == Unescape(toks[2 * i].s)
                   last(k) == CHOOSE i \in 1..m :
                                 key(i) = k /\ \A j \in 1..m : key(j) = k => j <= i
               IN  [ok |-> TRUE,
                    v  |-> PyDict([k \in {key(i) : i \in 1..m} |->
                                      ScalarVal(toks[2 * last(k) + 1])])]
        ELSE ParseError

\* line.strip() on the tokens of a line
RECURSIVE LStripTok(_)
LStripTok(line) ==
    IF line # <<>> /\ Head(line).t \in {"ws", "nl"} THEN LStripTok(Tail(line)) ELSE line

RECURSIVE RStripTok(_)
RStripTok(line) ==
    IF line # <<>> /\ line[Len(line)].t \in {"ws", "nl"}
      THEN RStripTok(SubSeq(line, 1, Len(line) - 1))
      ELSE line

StripTok(line) == RStripTok(LStripTok(line))

\* `for line in f`: the lines of a text, each with its newline
RECURSIVE SplitLines(_)
SplitLines(text) ==
    IF text = <<>> THEN <<>>
    ELSE IF \E i \in 1..Len(text) : text[i] = NL
      THEN LET i == CHOOSE i \in 1..Len(text) :
                       text[i] = NL /\ \A j \in 1..(i - 1) : text[j] # NL
           IN  <<SubSeq(text, 1, i)>> \o SplitLines(SubSeq(text, i + 1, Len(text)))
    ELSE <<text>>

\* `"ts" not in obj` on the loaded value: the key test of a dict, the
\* substring test of a str, TypeError for a value that is no container
TsTest(v) ==
    CASE v.type = "dict" -> IF Ts \in DOMAIN v.d THEN "in" ELSE "absent"
      [] v.type = "str"  -> IF IsSubstring(Ts, v.s) THEN "in" ELSE "absent"
      [] OTHER           -> "raise"

\* the body of `for line in f` of _load_from_file: what one line adds to
\* self.messages
LoadLine(line, now) ==
    LET text == StripTok(line)
        p    == Parse(text)
    IN  IF text = <<>> THEN <<>>
        ELSE IF ~p.ok THEN <<>>
        ELSE IF TsTest(p.v) = "raise" THEN <<>>
        ELSE IF TsTest(p.v) = "in" THEN <<p.v>>
        \* obj["ts"] = time.time(): TypeError on a str
        ELSE IF p.v.type = "dict" THEN <<PyDict(p.v.d @@ Ts :> PyNum(now))>>
        ELSE <<>>

RECURSIVE LoadLines(_, _)
LoadLines(lines, now) ==
    IF lines = <<>> THEN <<>>
    ELSE LoadLine(Head(lines), now) \o LoadLines(Tail(lines), now)

\* reading the file raises UnicodeDecodeError, which `except FileNotFoundError`
\* does not catch
LoadRaises(text) == \E i \in 1..Len(text) : text[i] = BadBytes

\* _load_from_file
Load(text, now) == LoadLines(SplitLines(text), now)

(* The operations of the store *)

User      == <<"u", "s", "e", "r">>
Assistant == <<"a", "s", "s", "i", "s", "t", "a", "n", "t">>
Tool      == <<"t", "o", "o", "l">>

\* the messages the model adds
MsgShapes ==
    {[role |-> User, content |-> <<"h", "i">>],
     [role |-> Assistant, content |-> <<"a", "\n", "b">>]}

\* what a write to the log file can do: it succeeds, open() fails and nothing
\* is written, or the write fails after a part of the record is on disk
WriteOutcomes == {"ok", "fail", "torn"}

\* the part of a record that reaches the disk when the write is cut short
Torn(record) == SubSeq(record, 1, IF Len(record) > 3 THEN 3 ELSE Len(record) - 1)

AppendLineUncaught(text, msg, outcome) ==
    [file   |-> CASE outcome = "ok"   -> text \o Dumps(msg) \o <<NL>>
                  [] outcome = "fail" -> text
                  [] outcome = "torn" -> text \o Torn(Dumps(msg)),
     raised |-> outcome # "ok"]

AppendLineTruncating(text, msg, outcome) ==
    [file   |-> CASE outcome = "ok"   -> Dumps(msg) \o <<NL>>
                  [] outcome = "fail" -> text
                  [] outcome = "torn" -> Torn(Dumps(msg)),
     raised |-> FALSE]

\* _append_line: the record and a newline are appended to the file; an
\* exception is swallowed
AppendLine(text, msg, outcome) ==
    [file   |-> CASE outcome = "ok"   -> text \o Dumps(msg) \o <<NL>>
                  [] outcome = "fail" -> text
                  [] outcome = "torn" -> text \o Torn(Dumps(msg)),
     raised |-> FALSE]

RECURSIVE DumpAll(_)
DumpAll(msgs) ==
    IF msgs = <<>> THEN <<>>
    ELSE Dumps(Head(msgs)) \o <<NL>> \o DumpAll(Tail(msgs))

\* save: the file is truncated and written from self.messages; no exception
\* is caught
Rewrite(text, msgs, outcome) ==
    [file   |-> CASE outcome = "ok"   -> DumpAll(msgs)
                  [] outcome = "fail" -> text
                  [] outcome = "torn" -> IF msgs = <<>> THEN <<>>
                                         ELSE Torn(Dumps(Head(msgs))),
     raised |-> outcome # "ok"]

\* the lines a log can hold at the start
RecLine      == Dumps(Message(User, <<"h", "i">>, 0)) \o <<NL>>
OldLine      == Dumps(PyDict(Role :> PyStr(User) @@ Content :> PyStr(<<"h", "i">>))) \o <<NL>>
BlankLine    == <<WS, NL>>
TornLine     == Torn(RecLine) \o <<NL>>
NumLine      == <<NumTok(7), NL>>
TsStrLine    == <<StrTok(Ts), NL>>
OtherLine    == Dumps(PyDict(Other :> PyNum(1))) \o <<NL>>
BadBytesLine == <<BadBytes, NL>>

InitLines ==
    {RecLine, OldLine, BlankLine, TornLine, NumLine, TsStrLine, OtherLine, BadBytesLine}

RECURSIVE Flatten(_)
Flatten(seqs) == IF seqs = <<>> THEN <<>> ELSE Head(seqs) \o Flatten(Tail(seqs))

Op(op, outcome, raised, msg) ==
    [op |-> op, outcome |-> outcome, raised |-> raised, msg |-> msg]

StoreCost == foreign + Cardinality({i \in 1..Len(ops) : ops[i].op # "open"})

\* ChatMemory(session_id) / ChatMemory.load(session_id): a new object whose
\* messages are loaded from the file; an exception of the load leaves the
\* caller without the new object
Open ==
    /\ IF ops = <<>> THEN TRUE ELSE ops[Len(ops)].op # "open"
    /\ IF LoadRaises(file)
         THEN /\ ops' = Append(ops, Op("open", "fail", TRUE, PyNone))
              /\ UNCHANGED <<messages, session>>
         ELSE /\ ops' = Append(ops, Op("open", "ok", FALSE, PyNone))
              /\ messages' = Load(file, clock)
              /\ session' = "open"
    /\ UNCHANGED <<file, clock, foreign, loopVars, shellVars, e2eVars>>

\* add(role, content)
Add ==
    /\ session = "open"
    /\ StoreCost < MaxStoreOps
    /\ \E shape \in MsgShapes, outcome \in WriteOutcomes :
        LET msg == Message(shape.role, shape.content, clock)
            w   == AppendLine(file, msg, outcome)
        IN  /\ messages' = Append(messages, msg)
            /\ file' = w.file
            /\ ops' = Append(ops, Op("add", outcome, w.raised, msg))
    /\ clock' = clock + 1
    /\ UNCHANGED <<session, foreign, loopVars, shellVars, e2eVars>>

\* save()
Save ==
    /\ session = "open"
    /\ StoreCost < MaxStoreOps
    /\ \E outcome \in WriteOutcomes :
        LET w == Rewrite(file, messages, outcome)
        IN  /\ file' = w.file
            /\ ops' = Append(ops, Op("save", outcome, w.raised, PyNone))
    /\ UNCHANGED <<messages, session, clock, foreign, loopVars, shellVars, e2eVars>>

OpenForAppending(text) == text

\* `with open(path, "w", encoding="utf-8") as f: pass`
OpenForWriting(text) == <<>>

\* ChatMemory.new_session(session_id): the file is truncated, then a new
\* object is made on it; a failure to open the file is raised
NewSession ==
    /\ StoreCost < MaxStoreOps
    /\ \/ /\ file' = OpenForWriting(file)
          /\ messages' = Load(OpenForWriting(file), clock)
          /\ session' = "open"
          /\ ops' = Append(ops, Op("new", "ok", FALSE, PyNone))
       \/ /\ ops' = Append(ops, Op("new", "fail", TRUE, PyNone))
          /\ UNCHANGED <<file, messages, session>>
    /\ UNCHANGED <<clock, foreign, loopVars, shellVars, e2eVars>>

\* history.messages.append({"role": "tool", "tool_call_id": ..., "content": ...})
\* of the REPL loop: a message without ts goes into the list of the open
\* session, nothing is written to the log
ToolResult == PyDict(Role :> PyStr(Tool) @@ Other :> PyStr(<<"1">>) @@ Content :> PyStr(<<"o", "k">>))

AppendDirect ==
    /\ session = "open"
    /\ StoreCost < MaxStoreOps
    /\ messages' = Append(messages, ToolResult)
    /\ ops' = Append(ops, Op("append", "ok", FALSE, ToolResult))
    /\ UNCHANGED <<file, session, clock, foreign, loopVars, shellVars, e2eVars>>

\* the `/save` branch of _handle_slash_command, called by run_repl_loop: no
\* try stands around history.save(), what save raises ends the REPL loop
SlashSave(raised) == IF raised THEN "raised" ELSE "saved"

StoreNext == Open \/ Add \/ Save \/ NewSession \/ AppendDirect

StoreInit ==
    /\ \E n \in 0..MaxStoreOps : \E lines \in [1..n -> InitLines] :
          /\ file = Flatten(lines)
          /\ foreign = n
    /\ messages = <<>>
    /\ session = "none"
    /\ clock = 1
    /\ ops = <<>>
    /\ loop = "repl"
    /\ history = InitialHistory("repl")
    /\ pc = "top"
    /\ iteration = 0
    /\ tool_calls = <<>>
    /\ idx = 1
    /\ requests = 0
    /\ handlersRun = 0
    /\ reported = {}
    /\ final_notes = FALSE
    /\ nextId = 1
    /\ deviations = 0
    /\ log = InitialLog("repl")
    /\ slot = NoSlot
    /\ procs = <<>>
    /\ queues = <<>>
    /\ writers = <<>>
    /\ main = IdleMain
    /\ results = <<>>
    /\ puts = <<>>
    /\ inputCalls = <<>>
    /\ orch = NoOrch
    /\ run = NoRun
    /\ disk = NoDisk
    /\ chats = <<>>
    /\ commands = <<>>

SpecStore == StoreInit /\ [][StoreNext]_vars

----------------------------------------------------------------------------
(* The multi-agent pipeline and the end-to-end orchestrator: src/main.py *)

\* tool rounds of the Coder and the Reviewer for one goal
MaxToolRounds == 2

\* max_retries of run_end_to_end_session
DefaultMaxRetries == 1

Goal == <<"goal">>

Path == "a.py"

Missing    == [exists |-> FALSE, text |-> <<>>]
File(text) == [exists |-> TRUE, text |-> text]

\* a message of a stage's list; tool names the tool of a tool-call message
\* and of its result
M(role, content, tool) == [role |-> role, content |-> content, tool |-> tool]

\* planner_messages
PlannerMessages(goal) ==
    <<M("system", <<"PLANNER_PROMPT">>, ""),
      M("user", <<"Plan the following goal:">> \o goal, "")>>

\* planner_response.choices[0].message.content or "(No plan produced)"
PlannerPlan(content) == IF content = <<>> THEN <<"(No plan produced)">> ELSE content

\* coder_history at the start of the Coder stage
CoderHistory(goal, planner_plan) ==
    <<M("system", <<"CODER_PROMPT">>, ""),
      M("user", <<"Goal:">> \o goal, ""),
      M("assistant", <<"Plan:">> \o planner_plan, "")>>

\* _read_file_text(path) or "(empty or unreadable)"
ReadFileText(d, path) ==
    IF d[path].exists /\ d[path].text # <<>> THEN d[path].text
    ELSE <<"(empty or unreadable)">>

RECURSIVE Parts(_, _, _)
\* the parts of changed_context for a list of paths
Parts(label, paths, d) ==
    IF paths = <<>> THEN <<>>
    ELSE <<label, Head(paths)>> \o ReadFileText(d, Head(paths)) \o Parts(label, Tail(paths), d)

ReviewerHistoryShared(created, edited, d) ==
    Append(run.coder_history,
           M("user", <<"Please review the following changes">>
                       \o Parts("### Created:", created, d)
                       \o Parts("### Edited:", [i \in 1..Len(edited) |-> edited[i][1]], d), ""))

\* reviewer_history at the start of the Reviewer stage
ReviewerHistory(created, edited, d) ==
    <<M("system", <<"REVIEWER_PROMPT">>, ""),
      M("user", <<"Please review the following changes">>
                  \o Parts("### Created:", created, d)
                  \o Parts("### Edited:", [i \in 1..Len(edited) |-> edited[i][1]], d), "")>>

\* the locals of run_multi_agent_session when it is called
NewRun(goal) ==
    [stage |-> "planner",
     goal |-> goal,
     planner_messages |-> PlannerMessages(goal),
     coder_history |-> <<>>,
     reviewer_history |-> <<>>,
     created_files_session |-> <<>>,
     edited_files_session |-> <<>>,
     round |-> 0]

\* the tool calls of a round: one call, by tool name; "malformed" is a call
\* whose arguments are no JSON
ToolCalls == {"write_file", "edit_file", "read_file", "malformed"}

\* what the branch of a tool records in created_files_session: the path of
\* the call, whatever the tool returned
Created(name, works) == IF name = "write_file" THEN <<Path>> ELSE <<>>

\* what the branch of a tool records in edited_files_session
Edited(name, works) == IF name = "edit_file" THEN <<<<Path, "append">>>> ELSE <<>>

\* write_file and edit_file on the disk; works is FALSE when the write raises
\* inside the tool, and edit_file changes no file that does not exist
Effect(name, works, d) ==
    CASE name = "write_file" /\ works -> [d EXCEPT ![Path] = File(<<"w">>)]
      [] name = "edit_file" /\ works /\ d[Path].exists ->
             [d EXCEPT ![Path] = File(d[Path].text \o <<"e">>)]
      [] OTHER -> d

\* the text the tool returns
ToolResultText(name, works, d) ==
    CASE name = "read_file" -> IF d[Path].exists THEN d[Path].text ELSE <<"(x)">>
      [] name = "edit_file" /\ ~d[Path].exists -> <<"(x)">>
      [] works -> <<"ok">>
      [] OTHER -> <<"(x)">>

\* one _chat_stream call: the stage, whether tools were passed, whether a
\* response came back, the tool the response calls
Chat(stage, tools, ok, tool) ==
    [stage |-> stage, tools |-> tools, ok |-> ok, tool |-> tool]

\* a tool round was run
Used == [orch EXCEPT !.used = @ + 1]

\* Planner: one _chat_stream call without tools
Planner ==
    /\ orch.pc = "pipeline"
    /\ run.stage = "planner"
    /\ \E ok \in BOOLEAN :
        /\ chats' = Append(chats, Chat("planner", FALSE, ok, ""))
        /\ IF ~ok
             THEN run' = [run EXCEPT !.stage = "returned"]
             ELSE \E content \in {<<"plan">>, <<>>} :
                    run' = [run EXCEPT !.stage = "coder",
                                       !.coder_history = CoderHistory(run.goal, PlannerPlan(content))]
    /\ UNCHANGED <<orch, disk, commands, loopVars, shellVars, storeVars>>

\* one iteration of a stage's loop: the _chat_stream call (ok: a response
\* came back, by the stream or by the fallback to _chat_create) and the tool
\* call of the response; field is the stage's list, next the stage after the loop
Round(stage, field, maxIter, next) ==
    \E ok \in BOOLEAN :
        \/ /\ ~ok
           /\ chats' = Append(chats, Chat(stage, TRUE, ok, ""))
           /\ run' = [run EXCEPT !.stage = next]
           /\ UNCHANGED <<orch, disk>>
        \/ /\ ok
           /\ chats' = Append(chats, Chat(stage, TRUE, ok, ""))
           /\ run' = [run EXCEPT !.stage = next]
           /\ UNCHANGED <<orch, disk>>
        \/ /\ ok
           /\ orch.used < MaxToolRounds
           /\ \E name \in ToolCalls, works \in BOOLEAN :
               LET call == M("assistant", <<>>, name)
                   tool == M("tool", ToolResultText(name, works, disk), name)
               IN  /\ chats' = Append(chats, Chat(stage, TRUE, ok, name))
                   /\ IF name = "malformed"
                        THEN /\ run' = [run EXCEPT !.stage = "raised",
                                                   ![field] = Append(@, call)]
                             \* json.loads raises: the exception leaves
                             \* run_multi_agent_session and run_end_to_end_session
                             /\ orch' = [Used EXCEPT !.pc = "raised"]
                             /\ UNCHANGED disk
                        ELSE /\ run' = [run EXCEPT
                                  ![field] = @ \o <<call, tool>>,
                                  !.created_files_session = @ \o Created(name, works),
                                  !.edited_files_session = @ \o Edited(name, works),
                                  !.round = @ + 1,
                                  !.stage = IF run.round + 1 = maxIter THEN next ELSE stage]
                             /\ disk' = Effect(name, works, disk)
                             /\ orch' = Used

\* Coder: one iteration of `for _ in range(15)`
CoderRound ==
    /\ orch.pc = "pipeline"
    /\ run.stage = "coder"
    /\ Round("coder", "coder_history", CoderMaxIterations, "gate")
    /\ UNCHANGED <<commands, loopVars, shellVars, storeVars>>

\* has_file_changes = bool(created_files_session or edited_files_session)
HasFileChanges(r) == r.created_files_session # <<>> \/ r.edited_files_session # <<>>

\* `if has_file_changes:` after the Coder loop: the Reviewer's list is built
\* from the files on disk, or the session returns
ReviewGate ==
    /\ orch.pc = "pipeline"
    /\ run.stage = "gate"
    /\ run' = IF HasFileChanges(run)
                THEN [run EXCEPT !.stage = "reviewer",
                                 !.round = 0,
                                 !.reviewer_history =
                                     ReviewerHistory(run.created_files_session,
                                                     run.edited_files_session, disk)]
                ELSE [run EXCEPT !.stage = "returned"]
    /\ UNCHANGED <<orch, disk, chats, commands, loopVars, shellVars, storeVars>>

\* Reviewer: one iteration of `for _ in range(8)`
ReviewerRound ==
    /\ orch.pc = "pipeline"
    /\ run.stage = "reviewer"
    /\ Round("reviewer", "reviewer_history", ReviewerMaxIterations, "returned")
    /\ UNCHANGED <<commands, loopVars, shellVars, storeVars>>

(* Validation and commit *)

\* the string run_shell_command returns; "(x)", "(!)" and "(p)" stand for the
\* cross mark, the warning sign and the pause sign that open its texts
ResultText(r) ==
    CASE r.kind = "error"     -> <<"(x)", " ", "E", "r", "r", "o", "r", ":", "\n">> \o r.text
      [] r.kind = "exception" -> <<"(!)", " ", "E", "x", "c", "e", "p", "t", "i", "o", "n">>
      [] r.kind = "paused"    -> <<"(p)", " ", "p", "a", "u", "s", "e", "d", ":", " ">> \o r.text
      [] OTHER                -> r.text

\* str.startswith
StartsWith(s, p) == Len(s) >= Len(p) /\ SubSeq(s, 1, Len(p)) = p

AllOkNoTestsRanOnly(pytest) ==
    ~(/\ StartsWith(pytest, <<"(x)", " ", "E", "r", "r", "o", "r", ":">>)
      /\ ~IsSubstring(<<"n", "o", " ", "t", "e", "s", "t", "s", " ", "r", "a", "n">>,
                      Lower(pytest)))

\* all_ok of _run_validation_steps, from outputs["pytest"]
AllOk(pytest) ==
    ~(/\ StartsWith(pytest, <<"(x)", " ", "E", "r", "r", "o", "r", ":">>)
      /\ ~IsSubstring(<<"n", "o", " ", "t", "e", "s", "t", "s", " ", "r", "a", "n">>,
                      Lower(pytest))
      /\ ~IsSubstring(<<"n", "o", "t", " ", "f", "o", "u", "n", "d">>, Lower(pytest)))

\* results of the formatter and of the linter
ToolRunResults == {OutputResult(<<<<"o", "k", "\n">>>>), ErrorResult(<<"b", "a", "d">>)}

\* results of the test runner
PytestResults ==
    {OutputResult(<<<<"o", "k", "\n">>>>),
     ErrorResult(<<"b", "a", "d">>),
     ErrorResult(<<"N", "o", " ", "t", "e", "s", "t", "s", " ", "r", "a", "n">>),
     ErrorResult(<<"s", "h", ":", " ", "n", "o", "t", " ", "f", "o", "u", "n", "d">>),
     Paused("pytest -q", PromptLine),
     ExceptionResult}

RetryGoalWithoutTranscript(goal, failure_context) ==
    goal \o <<"Then fix the following test/validation failures">>

\* retry_goal
RetryGoal(goal, failure_context) ==
    goal \o <<"Then fix the following test/validation failures">> \o failure_context

RetriesLeftInclusive(retries, max_retries) == retries <= max_retries

\* `retries < max_retries` of the while loop
RetriesLeft(retries, max_retries) == retries < max_retries

\* run_multi_agent_session has returned and its locals are gone:
\* _run_validation_steps, and what run_end_to_end_session does with its
\* result: the test of the while loop and, in its body, the next session;
\* tests holds what the call of the test runner returned
Validate ==
    /\ orch.pc = "pipeline"
    /\ run.stage = "returned"
    /\ \E black \in ToolRunResults, ruff \in ToolRunResults, pytest \in PytestResults :
        LET outputs == [black |-> ResultText(black), ruff |-> ResultText(ruff),
                        pytest |-> ResultText(pytest)]
            ok == AllOk(outputs.pytest)
        IN  IF ~ok /\ RetriesLeft(orch.retries, orch.max_retries)
              THEN /\ orch' = [orch EXCEPT !.ok = ok, !.outputs = outputs, !.tests = pytest,
                                           !.retries = @ + 1]
                   /\ run' = NewRun(RetryGoal(orch.goal, outputs.pytest))
              ELSE /\ orch' = [orch EXCEPT !.ok = ok, !.outputs = outputs, !.tests = pytest,
                                           !.pc = "commit"]
                   /\ run' = NoRun
    /\ chats' = <<>>
    /\ commands' = commands \o <<"black .", "ruff check . --fix", "pytest -q">>
    /\ UNCHANGED <<disk, loopVars, shellVars, storeVars>>

GitCommandsInitAlways(check) ==
    <<"git rev-parse --is-inside-work-tree", "git init", "git add -A", "git commit">>

\* the commands of _git_commit_changes
GitCommands(check) ==
    <<"git rev-parse --is-inside-work-tree">>
    \o (IF IsSubstring(<<"t", "r", "u", "e">>, Lower(ResultText(check)))
          THEN <<>> ELSE <<"git init">>)
    \o <<"git add -A", "git commit">>

\* a panel printed on the console
Panel(title, text, style) == [title |-> title, text |-> text, style |-> style]

\* results of the version-control commands
GitResults == {OutputResult(<<<<"o", "k", "\n">>>>), ErrorResult(<<"f", "a", "t", "a", "l">>)}

GitPanelsUntilError(check, init_out, add_out, commit_out) ==
    IF ~IsSubstring(<<"t", "r", "u", "e">>, Lower(ResultText(check))) /\ init_out.kind = "error"
      THEN <<Panel("git init", ResultText(init_out), "cyan")>>
      ELSE (IF IsSubstring(<<"t", "r", "u", "e">>, Lower(ResultText(check)))
              THEN <<>> ELSE <<Panel("git init", ResultText(init_out), "cyan")>>)
           \o <<Panel("git add -A", ResultText(add_out), "cyan")>>
           \o (IF add_out.kind = "error" THEN <<>>
                ELSE <<Panel("git commit", ResultText(commit_out),
                             IF commit_out.kind = "error" THEN "red" ELSE "green")>>)

\* the panels _git_commit_changes prints: the output of init if it was run,
\* of add and of commit
GitPanels(check, init_out, add_out, commit_out) ==
    (IF IsSubstring(<<"t", "r", "u", "e">>, Lower(ResultText(check)))
       THEN <<>> ELSE <<Panel("git init", ResultText(init_out), "cyan")>>)
    \o <<Panel("git add -A", ResultText(add_out), "cyan"),
          Panel("git commit", ResultText(commit_out),
                IF StartsWith(ResultText(commit_out), <<"(x)", " ", "E", "r", "r", "o", "r", ":">>)
                  THEN "red" ELSE "green")>>

\* the panel at the end of run_end_to_end_session
E2EResult(ok) ==
    Panel("E2E Result",
          IF ok THEN "All validations passed" ELSE "Validations still failing",
          IF ok THEN "green" ELSE "red")

\* `if commit: _git_commit_changes(commit_message)` and the end of
\* run_end_to_end_session; git holds what each command of the commit step
\* returned
Commit ==
    /\ orch.pc = "commit"
    /\ IF orch.commit
         THEN \E check \in {OutputResult(<<<<"t", "r", "u", "e", "\n">>>>),
                             ErrorResult(<<"f", "a", "t", "a", "l">>)},
                 add_out \in GitResults, commit_out \in GitResults :
              \* init is run after a check that failed only
              \E init_out \in IF check.kind = "error" THEN GitResults ELSE {Ack} :
                /\ commands' = commands \o GitCommands(check)
                /\ orch' = [orch EXCEPT
                      !.pc = "done",
                      !.git = [c \in {GitCommands(check)[i] : i \in 1..Len(GitCommands(check))} |->
                                 CASE c = "git init"   -> ResultText(init_out)
                                   [] c = "git add -A" -> ResultText(add_out)
                                   [] c = "git commit" -> ResultText(commit_out)
                                   [] OTHER            -> ResultText(check)],
                      !.printed = GitPanels(check, init_out, add_out, commit_out)
                                  \o <<E2EResult(orch.ok)>>]
         ELSE /\ orch' = [orch EXCEPT !.pc = "done", !.printed = <<E2EResult(orch.ok)>>]
              /\ UNCHANGED commands
    /\ UNCHANGED <<run, disk, chats, loopVars, shellVars, storeVars>>

E2ENext == Planner \/ CoderRound \/ ReviewGate \/ ReviewerRound \/ Validate \/ Commit

\* run_end_to_end_session(goal, commit, max_retries) has been called and has
\* called run_multi_agent_session(goal)
E2EInit ==
    /\ \E retries \in 0..DefaultMaxRetries, commit \in BOOLEAN :
          orch = [pc |-> "pipeline", goal |-> Goal, retries |-> 0, ok |-> FALSE,
                  outputs |-> [black |-> <<>>, ruff |-> <<>>, pytest |-> <<>>], max_retries |-> retries, commit |-> commit,
                  used |-> 0, tests |-> Ack, git |-> <<>>, printed |-> <<>>]
    /\ run = NewRun(Goal)
    /\ disk = [p \in {Path} |-> Missing]
    /\ chats = <<>>
    /\ commands = <<>>
    /\ file = <<>>
    /\ messages = <<>>
    /\ session = "none"
    /\ clock = 1
    /\ ops = <<>>
    /\ foreign = 0
    /\ loop = "repl"
    /\ history = InitialHistory("repl")
    /\ pc = "top"
    /\ iteration = 0
    /\ tool_calls = <<>>
    /\ idx = 1
    /\ requests = 0
    /\ handlersRun = 0
    /\ reported = {}
    /\ final_notes = FALSE
    /\ nextId = 1
    /\ deviations = 0
    /\ log = InitialLog("repl")
    /\ slot = NoSlot
    /\ procs = <<>>
    /\ queues = <<>>
    /\ writers = <<>>
    /\ main = IdleMain
    /\ results = <<>>
    /\ puts = <<>>
    /\ inputCalls = <<>>

SpecE2E == E2EInit /\ [][E2ENext]_vars

----------------------------------------------------------------------------
(* The sessions of the REPL: src/main.py on src/build/lib/chat_memory.py *)

\* lines typed at the REPL prompt after start-up: slash commands and messages
MaxReplInputs == 3

System == <<"s", "y", "s", "t", "e", "m">>

\* SYSTEM_PROMPT
SystemPrompt == <<"p">>

\* the session ids: the one the REPL starts on and another one
SessionIds == {"s1", "s2"}

\* the log a session of an earlier run left: the system prompt and a user turn
EarlierLog ==
    DumpAll(<<Message(System, SystemPrompt, 0), Message(User, <<"h", "i">>, 0),
              Message(Assistant, <<"o", "k">>, 0)>>)

\* what the sessions directory can hold for an id: no file, an empty file, or
\* the log of an earlier run
SessionFiles == {Missing, File(<<>>), File(EarlierLog)}

\* ChatMemory(session_id): the messages loaded if the file exists
ChatMemoryOn(d, id) == IF d[id].exists THEN Load(d[id].text, clock) ELSE <<>>

\* history.add(role, content) on session id: the new list and the new
\* directory; a write that fails creates no file
HistoryAdd(d, id, msgs, role, content, outcome) ==
    LET msg == Message(role, content, clock)
        w   == AppendLine(IF d[id].exists THEN d[id].text ELSE <<>>, msg, outcome)
    IN  [messages |-> Append(msgs, msg),
         disk     |-> IF ~d[id].exists /\ outcome = "fail" THEN d
                      ELSE [d EXCEPT ![id] = File(w.file)]]

\* the file of id after ChatMemory.new_session(id) truncated or created it
Truncated(d, id) == [d EXCEPT ![id] = File(OpenForWriting(IF d[id].exists THEN d[id].text ELSE <<>>))]

\* main() makes the ChatMemory object (--new-session, or --session / the
\* default, which load what the file holds) and run_repl_loop adds the
\* system prompt if the list is empty
StartUp ==
    /\ session = "none"
    /\ \E fresh \in BOOLEAN, outcome \in {"ok", "fail"} :
        LET d    == IF fresh THEN Truncated(disk, "s1") ELSE disk
            msgs == ChatMemoryOn(d, "s1")
            a    == HistoryAdd(d, "s1", msgs, System, SystemPrompt, outcome)
        IN  IF msgs = <<>>
              THEN messages' = a.messages /\ disk' = a.disk
              ELSE messages' = msgs /\ disk' = d
    /\ session' = "s1"
    /\ clock' = clock + 1
    /\ UNCHANGED <<file, ops, foreign, chats, orch, run, commands, loopVars, shellVars>>

\* `/new id`: _start_new_session makes a new session and adds the system prompt
SlashNew ==
    /\ session # "none"
    /\ Len(ops) < MaxReplInputs
    /\ \E id \in SessionIds, outcome \in {"ok", "fail"} :
        LET a == HistoryAdd(Truncated(disk, id), id, <<>>, System, SystemPrompt, outcome)
        IN  /\ messages' = a.messages
            /\ disk' = a.disk
            /\ session' = id
            /\ ops' = Append(ops, Op("/new", outcome, FALSE, PyNone))
    /\ clock' = clock + 1
    /\ UNCHANGED <<file, foreign, chats, orch, run, commands, loopVars, shellVars>>

\* `/session id`: _switch_session loads the session and adds nothing
SlashSession ==
    /\ session # "none"
    /\ Len(ops) < MaxReplInputs
    /\ \E id \in SessionIds :
        /\ messages' = ChatMemoryOn(disk, id)
        /\ session' = id
    /\ ops' = Append(ops, Op("/session", "ok", FALSE, PyNone))
    /\ UNCHANGED <<file, clock, foreign, disk, chats, orch, run, commands,
                   loopVars, shellVars>>

\* a user message: history.add("user", ...), the model is called with
\* history.get(), and its final answer, if one comes back, is added; chats
\* holds the list each call was given
UserTurn ==
    /\ session # "none"
    /\ Len(ops) < MaxReplInputs
    /\ \E wu \in {"ok", "fail"}, ok \in BOOLEAN :
        LET u == HistoryAdd(disk, session, messages, User, <<"h", "i">>, wu)
            a == HistoryAdd(u.disk, session, u.messages, Assistant, <<"o", "k">>, "ok")
        IN  /\ chats' = Append(chats, u.messages)
            /\ messages' = IF ok THEN a.messages ELSE u.messages
            /\ disk' = IF ok THEN a.disk ELSE u.disk
            /\ ops' = Append(ops, Op("message", wu, FALSE, PyNone))
    /\ clock' = clock + 1
    /\ UNCHANGED <<file, session, foreign, orch, run, commands, loopVars, shellVars>>

ReplNext == StartUp \/ SlashNew \/ SlashSession \/ UserTurn

\* main() has parsed its arguments; the sessions directory holds what
\* earlier runs left
ReplInit ==
    /\ disk \in [SessionIds -> SessionFiles]
    /\ session = "none"
    /\ messages = <<>>
    /\ clock = 1
    /\ ops = <<>>
    /\ chats = <<>>
    /\ file = <<>>
    /\ foreign = 0
    /\ orch = NoOrch
    /\ run = NoRun
    /\ commands = <<>>
    /\ loop = "repl"
    /\ history = InitialHistory("repl")
    /\ pc = "top"
    /\ iteration = 0
    /\ tool_calls = <<>>
    /\ idx = 1
    /\ requests = 0
    /\ handlersRun = 0
    /\ reported = {}
    /\ final_notes = FALSE
    /\ nextId = 1
    /\ deviations = 0
    /\ log = InitialLog("repl")
    /\ slot = NoSlot
    /\ procs = <<>>
    /\ queues = <<>>
    /\ writers = <<>>
    /\ main = IdleMain
    /\ results = <<>>
    /\ puts = <<>>
    /\ inputCalls = <<>>

SpecRepl == ReplInit /\ [][ReplNext]_vars

----------------------------------------------------------------------------
(* Properties of the dispatch loops, checked under SpecLoop *)

HasCalls(m) == m.role = "assistant" /\ Len(m.tool_calls) > 0

\* the positions of history that hold an assistant message with tool_calls
CallRounds == {i \in 1..Len(history) : HasCalls(history[i])}

\* the first n calls of the assistant message at position i are followed, in
\* request order, by one tool message each, with the call's id
Answered(i, n) ==
    /\ i + n <= Len(history)
    /\ \A k \in 1..n :
         /\ history[i + k].role = "tool"
         /\ history[i + k].tool_call_id = history[i].tool_calls[k].id

\* ... and no further tool message follows them
Resolved(i) ==
    LET n == Len(history[i].tool_calls) IN
    /\ Answered(i, n)
    /\ i + n < Len(history) => history[i + n + 1].role # "tool"

LastRound == CHOOSE i \in CallRounds : \A j \in CallRounds : j <= i

\* C1: whenever a request can be sent to the model (the loop is at the top of
\* an iteration), every assistant message with tool_calls in the history is
\* followed by exactly one tool message per call, in request order and with
\* the call's id; inside a round the calls are executed one at a time in
\* request order: the history ends with the results of exactly the calls
\* before the one being executed, and all earlier rounds are resolved.
C1_ToolCallsResolvedBeforeRequest ==
    /\ pc = "top" => \A i \in CallRounds : Resolved(i)
    /\ pc = "dispatch" =>
         /\ CallRounds # {}
         /\ history[LastRound].tool_calls = tool_calls
         /\ Len(history) = LastRound + (idx - 1)
         /\ Answered(LastRound, idx - 1)
         /\ \A i \in CallRounds \ {LastRound} : Resolved(i)

\* a request was sent after a round of two calls had been dispatched
C1_Witness ==
    /\ pc = "dispatch"
    /\ iteration >= 2
    /\ \E i \in CallRounds \ {LastRound} : Len(history[i].tool_calls) = 2

\* the call k of the assistant message at position i has been taken up by the
\* dispatch loop (executed, or being executed when the loop was left)
TakenUp(i, k) ==
    \/ i # LastRound
    \/ pc \in {"top", "done", "stopped", "capped"}
    \/ pc = "dispatch" /\ k < idx
    \/ pc = "crashed" /\ k <= idx

ErrorTexts == {"error", "unknown_tool"}

\* C2: a requested call whose arguments fail to parse gets exactly one tool
\* message with its id whose content is the error text, and no exception
\* leaves the loop.
C2_ParseFailureBecomesToolMessage ==
    /\ pc # "crashed"
    /\ \A i \in CallRounds : \A k \in 1..Len(history[i].tool_calls) :
         LET c == history[i].tool_calls[k] IN
         (c.arguments # "valid" /\ TakenUp(i, k)) =>
            /\ i + k <= Len(history)
            /\ history[i + k].role = "tool"
            /\ history[i + k].tool_call_id = c.id
            /\ history[i + k].content \in ErrorTexts

\* C3: a call whose name matches no handler gets a tool message with its id
\* and the unknown-tool text, and the loop is not left because of it.
C3_UnknownToolBecomesToolMessage ==
    \A i \in CallRounds : \A k \in 1..Len(history[i].tool_calls) :
        LET c == history[i].tool_calls[k] IN
        (c.name \notin Handlers /\ TakenUp(i, k)) =>
            /\ i + k <= Len(history)
            /\ history[i + k].role = "tool"
            /\ history[i + k].tool_call_id = c.id
            /\ history[i + k].content = "unknown_tool"

\* C4 as claimed: one invocation sends at most maxIterations requests to the
\* model client (10 for a REPL turn, 15 for the Coder, 8 for the Reviewer).
C4_RequestsWithinMaxIterations ==
    /\ loop = "repl" => requests <= ReplMaxIterations
    /\ loop = "coder" => requests <= CoderMaxIterations
    /\ loop = "reviewer" => requests <= ReviewerMaxIterations

\* C4 as amended: one invocation calls _chat_stream at most maxIterations
\* times (10, 15, 8), and every call of _chat_stream sends one or two
\* requests (the streaming request and, after a failure that is no connection
\* error, the request of _chat_create): at most 2 * maxIterations requests.
C4_IterationsWithinMaxIterations ==
    /\ loop = "repl" => iteration <= ReplMaxIterations
    /\ loop = "coder" => iteration <= CoderMaxIterations
    /\ loop = "reviewer" => iteration <= ReviewerMaxIterations
    /\ iteration <= requests
    /\ requests <= 2 * iteration

\* all iterations were used and one of them needed the fallback request
C4_Witness ==
    /\ pc = "capped"
    /\ iteration = maxIterations(loop)
    /\ requests = iteration + 1

\* C5: a loop that used all its iterations reports MaxIterationsReached to the
\* user, in the REPL, the Coder and the Reviewer alike, and a loop that ended
\* otherwise does not report it.
C5_MaxIterationsReported ==
    /\ pc = "capped" => "max_iterations" \in reported
    /\ pc \in {"done", "stopped"} => "max_iterations" \notin reported

\* C6 as claimed: after a response without tool calls the history of the loop
\* ends with that response as final assistant message, in every loop.
C6_FinalMessageAppended ==
    pc = "done" => history[Len(history)] = FinalMsg

\* C6 as amended: a response without tool calls ends the loop; the REPL
\* appends it to its history as final assistant message, the Coder and the
\* Reviewer leave their history as it is and keep the answer in final_notes /
\* review_notes; in all three no tool is executed and no further request is
\* sent in that invocation.
C6_FinalResponseEndsLoop ==
    [][ /\ (pc # "done" /\ pc' = "done") =>
            /\ final_notes'
            /\ history' = IF loop = "repl" THEN Append(history, FinalMsg) ELSE history
            /\ handlersRun' = handlersRun
        /\ pc = "done" =>
            \/ pc' = "done" /\ UNCHANGED <<history, requests, handlersRun, iteration>>
            \/ loop = "repl" /\ pc' = "top" /\ requests' = 0 /\ handlersRun' = 0
                 /\ history' = Append(history, UserMsg)
      ]_vars

\* the Coder got a final answer after a round of tool calls
C6_Witness ==
    /\ loop = "coder"
    /\ pc = "done"
    /\ final_notes
    /\ iteration >= 2
    /\ history[Len(history)].role = "tool"

\* the REPL turn is over: the loop has been left
TurnOver == loop = "repl" /\ pc \in {"done", "stopped", "capped"}

\* C17: after every REPL turn the session log holds exactly the messages of
\* the in-memory history, in order: user messages, assistant messages with
\* tool calls, tool results and final assistant messages were all written
\* when they were produced.
C17_LogHoldsHistory ==
    TurnOver => log = history

\* the messages of a sequence that are no system prompt
NoSystem(msgs) == SelectSeq(msgs, LAMBDA m : m.role # "system")

\* a fresh session, one user goal, and the model answered with one write_file
\* call, which was executed, and then with a final message
OneWriteFileThenFinal ==
    /\ loop = "repl"
    /\ pc = "done"
    /\ iteration = 2
    /\ Len(history) = 5
    /\ history[2] = UserMsg
    /\ HasCalls(history[3])
    /\ Len(history[3].tool_calls) = 1
    /\ history[3].tool_calls[1].name = "write_file"
    /\ history[3].tool_calls[1].arguments = "valid"
    /\ history[4] = ToolMsg(history[3].tool_calls[1], "ok")
    /\ history[5] = FinalMsg

\* C18: in that run the session log holds, after the system prompt, exactly
\* one user message, one assistant message with the tool call, one tool
\* message and one assistant message, in that order, and write_file has
\* reported the file as written.
C18_LogOfOneWriteFileRun ==
    OneWriteFileThenFinal =>
        NoSystem(log) = <<history[2], history[3], history[4], history[5]>>

----------------------------------------------------------------------------
(* Properties of the process controller, checked under SpecShell *)

\* nothing but a new call of run_shell_command can happen
Quiescent ==
    /\ main.pc = "idle"
    /\ \A p \in 1..Len(procs) : ~ProcCanStep(p)
    /\ \A i \in 1..Len(writers) : ~WriterCanStep(i)

\* the lines a command writes to stdout, in order
StdoutLines(cmd) ==
    LET outs == SelectSeq(Script(cmd), LAMBDA st : st.op = "out")
    IN  [i \in 1..Len(outs) |-> outs[i].line]

EqIgnoreCase(a, b) ==
    \/ a = b
    \/ \E i \in 1..Len(UpperChars) : {a, b} = {UpperChars[i], LowerChars[i]}

\* the line contains a known prompt marker, compared without case
HasMarker(line) ==
    \E m \in PromptMarkers : \E off \in 0..(Len(line) - Len(m)) :
        \A j \in 1..Len(m) : EqIgnoreCase(line[off + j], m[j])

\* the index of the first stdout line of cmd with a marker, 0 if there is none
FirstMarker(cmd) ==
    LET hits == {k \in 1..Len(StdoutLines(cmd)) : HasMarker(StdoutLines(cmd)[k])}
    IN  IF hits = {} THEN 0 ELSE CHOOSE k \in hits : \A h \in hits : k <= h

\* C7: the first output line with a prompt marker (case-insensitive) pauses
\* the run: reading it returns the paused result with that line (stripped) and
\* the command, and no line after it is ever taken from the process's stdout.
C7_PromptLinePausesRun ==
    \A p \in 1..Len(procs) :
        LET cmd == procs[p].command
            k   == FirstMarker(cmd)
        IN  /\ k # 0 => procs[p].nread <= k
            /\ (k # 0 /\ procs[p].nread = k) =>
                  /\ procs[p].outcome = "paused"
                  /\ main.p # p
                  /\ \E j \in 1..Len(results) :
                        results[j] = [kind |-> "paused", command |-> cmd,
                                      text |-> Strip(StdoutLines(cmd)[k])]
            /\ procs[p].outcome = "paused" => (k # 0 /\ procs[p].nread = k)

\* a run was paused by a prompt on the second line, input was supplied and the
\* process went on writing
C7_Witness ==
    \E p \in 1..Len(procs) :
        /\ procs[p].outcome = "paused"
        /\ procs[p].nread = 2
        /\ procs[p].taken = 1
        /\ procs[p].step > 4

\* C8: once a paused process has been resumed and a further call of
\* run_shell_command has returned, the process ends Completed and the output
\* it wrote after the prompt is returned (stated where nothing is left to run).
C8_ResumedRunCompletes ==
    Quiescent =>
        \A i \in 1..Len(puts) :
            (puts[i].outcome = "paused" /\ Len(results) > puts[i].at) =>
                /\ procs[puts[i].p].outcome = "completed"
                /\ \E j \in (puts[i].at + 1)..Len(results) :
                      /\ results[j].kind = "output"
                      /\ IsSubstring(Strip(DoneLine), results[j].text)

RECURSIVE IsSubsequence(_, _)
IsSubsequence(a, b) ==
    IF a = <<>> THEN TRUE
    ELSE IF b = <<>> THEN FALSE
    ELSE IF Head(a) = Head(b) THEN IsSubsequence(Tail(a), Tail(b))
    ELSE IsSubsequence(a, Tail(b))

\* the texts resume queued for process p while p was waiting for input, each
\* with its newline, in call order
ResumeTexts(p) ==
    LET mine == SelectSeq(puts, LAMBDA u : u.p = p /\ u.outcome = "paused" /\ u.waiting)
    IN  [i \in 1..Len(mine) |-> mine[i].text \o <<"\n">>]

\* C9: the texts of the resume calls made while process p was waiting for
\* input are written to the stdin of p, in call order (stated where nothing is
\* left to run).
C9_ResumeTextReachesPausedProcess ==
    Quiescent => \A p \in 1..Len(procs) : IsSubsequence(ResumeTexts(p), procs[p].stdin)

\* C10: a call that supplies input text queues it and returns the
\* acknowledgement only while the slot holds a paused, live process.
C10_ResumeOnlyWhenWaiting ==
    \A i \in 1..Len(puts) : puts[i].outcome = "paused" /\ puts[i].alive

\* C11: every call that supplies an input text (the empty text of a bare
\* Enter included) while the controller is in WaitingForInput queues the text
\* and returns the acknowledgement at once; it launches no process and leaves
\* the slot (process, command, input queue) as it was.
C11_ResumeQueuesAnyText ==
    \A i \in 1..Len(inputCalls) :
        /\ inputCalls[i].acked
        /\ ~inputCalls[i].launched
        /\ inputCalls[i].after = inputCalls[i].before

\* the texts queued by the calls made while the slot held process p, each
\* with its newline, in call order
PutTexts(p) ==
    LET mine == SelectSeq(puts, LAMBDA u : u.p = p)
    IN  [i \in 1..Len(mine) |-> mine[i].text \o <<"\n">>]

\* C12: the slot holds one process at most, and what is written to the stdin
\* of a process are texts supplied while the slot held that process, in call
\* order: once a later command has replaced a paused process in the slot, no
\* text supplied from then on is written to the earlier process, whatever the
\* interleaving of the main thread and the writer threads.
C12_NoLaterTextToEarlierProcess ==
    /\ slot.process \in 0..Len(procs)
    /\ \A p \in 1..Len(procs) : IsSubsequence(procs[p].stdin, PutTexts(p))

\* C13: the writer thread started for a command ends once the process of that
\* command has exited; it does not outlive the command (stated where nothing
\* is left to run: a thread that has not ended by then never ends).
C13_WriterEndsWithProcess ==
    Quiescent =>
        \A i \in 1..Len(writers) : ~procs[i].alive => writers[i].pc = "ended"

\* the step in which the read loop of process p ends at end-of-stream
EndOfStream(p) ==
    /\ main.pc = "reading"
    /\ main.p = p
    /\ main'.pc = "idle"
    /\ procs'[p].outcome # "paused"

\* C14 as claimed: at end-of-stream without a prompt match the run ends Failed
\* and returns the captured stderr when the exit code is not zero, and ends
\* Completed and returns the concatenation of all stdout lines, in order, when
\* it is zero.
C14_EndOfStreamReturnsStreams ==
    [][ \A p \in 1..Len(procs) : EndOfStream(p) =>
          LET cmd == procs[p].command IN
          IF procs[p].code # 0
            THEN /\ procs'[p].outcome = "failed"
                 /\ results' = Append(results, [kind |-> "error", command |-> "",
                                                 text |-> Stderr(cmd)])
            ELSE /\ procs'[p].outcome = "completed"
                 /\ results' = Append(results, [kind |-> "output", command |-> "",
                                                 text |-> Join(StdoutLines(cmd))])
      ]_vars

\* C14 as amended: at end-of-stream without a prompt match the run ends Failed
\* and returns the error text made of the captured stderr without its leading
\* and trailing whitespace when the exit code is not zero (the stdout lines are
\* dropped), and ends Completed and returns the concatenation of all stdout
\* lines, in order, without its leading and trailing whitespace, when it is
\* zero.
C14_EndOfStreamReturnsStrippedStreams ==
    [][ \A p \in 1..Len(procs) : EndOfStream(p) =>
          LET cmd == procs[p].command IN
          /\ FirstMarker(cmd) = 0
          /\ ~procs[p].alive
          /\ procs[p].nread = Len(StdoutLines(cmd))
          /\ IF procs[p].code # 0
               THEN /\ procs'[p].outcome = "failed"
                    /\ results' = Append(results, [kind |-> "error", command |-> "",
                                                    text |-> Strip(Stderr(cmd))])
               ELSE /\ procs'[p].outcome = "completed"
                    /\ results' = Append(results, [kind |-> "output", command |-> "",
                                                    text |-> Strip(Join(StdoutLines(cmd)))])
      ]_vars

\* a command of two output lines completed and a command that wrote to stdout
\* and stderr failed
C14_Witness ==
    \E p, q \in 1..Len(procs) :
        /\ procs[p].outcome = "completed"
        /\ procs[p].nread = 2
        /\ procs[q].outcome = "failed"
        /\ procs[q].nread = 1
        /\ Len(results) >= 2

\* the forms of the string run_shell_command returns: the acknowledgement, the
\* paused text, the error text, the output, the text of a caught exception
StringResults == {"ack", "paused", "error", "output", "exception"}

----------------------------------------------------------------------------
(* Properties of the session memory store, checked under SpecStore *)

LastOp == ops[Len(ops)]

\* the session was just opened
JustOpened == ops # <<>> /\ LastOp.op = "open"

\* the add calls made so far, in order
Adds == SelectSeq(ops, LAMBDA o : o.op = "add")

\* the messages appended through add, in order
Added == [i \in 1..Len(Adds) |-> Adds[i].msg]

\* the log was written by add alone: it was empty at the start and was
\* neither rewritten nor truncated
WrittenByAdd == foreign = 0 /\ \A i \in 1..Len(ops) : ops[i].op \in {"open", "add"}

RECURSIVE Intact(_, _)
Intact(adds, torn) ==
    IF adds = <<>> THEN <<>>
    ELSE LET a == Head(adds) IN
         (IF a.outcome = "ok" /\ ~torn THEN <<a.msg>> ELSE <<>>)
         \o Intact(Tail(adds), CASE a.outcome = "ok"   -> FALSE
                                  [] a.outcome = "fail" -> torn
                                  [] a.outcome = "torn" -> TRUE)

IsMessageRecord(line) ==
    LET p == Parse(StripTok(line))
    IN  p.ok /\ p.v.type = "dict" /\ {Role, Content} \subseteq DOMAIN p.v.d

\* the message of a record line; a record without ts gets the load time
RecordOf(line, now) ==
    LET v == Parse(StripTok(line)).v
    IN  IF Ts \in DOMAIN v.d THEN v ELSE PyDict(v.d @@ Ts :> PyNum(now))

RECURSIVE RecordsOf(_, _)
RecordsOf(lines, now) ==
    IF lines = <<>> THEN <<>>
    ELSE (IF IsMessageRecord(Head(lines)) THEN <<RecordOf(Head(lines), now)>> ELSE <<>>)
         \o RecordsOf(Tail(lines), now)

\* C19: loading a log never fails, and the messages loaded are those of the
\* lines that hold a message record, in file order: every line that is empty,
\* is no JSON or is no message record is skipped wherever it stands, and no
\* record line is lost because of another line.
C19_LoadSkipsMalformedLines ==
    JustOpened =>
        /\ ~LastOp.raised
        /\ messages = RecordsOf(SplitLines(file), clock)

\* the add steps
AddStep == Len(ops') = Len(ops) + 1 /\ ops'[Len(ops')].op = "add"

\* C20: add raises nothing and leaves its message as the last element of the
\* in-memory list, all earlier elements in place, whether the write to the log
\* succeeds, fails or is cut short, and whatever happened to earlier writes.
C20_AppendFailureKeepsMemory ==
    [][ AddStep =>
          /\ ~ops'[Len(ops')].raised
          /\ messages' = Append(messages, ops'[Len(ops')].msg)
          /\ session' = "open"
      ]_vars

\* a write failed, a later one succeeded: both messages are in memory, one
\* record is in the log
C20_Witness ==
    /\ foreign = 0
    /\ Len(Adds) = 2
    /\ LastOp.op = "add"
    /\ Adds[1].outcome = "fail"
    /\ Adds[2].outcome = "ok"
    /\ messages = Added
    /\ Len(SplitLines(file)) = 1

\* the save calls made so far
Saves == {i \in 1..Len(ops) : ops[i].op = "save"}

\* C21: a failure to write the log during save is absorbed: the /save
\* command raises nothing to the REPL, which keeps running.
C21_RewriteFailureAbsorbed ==
    \A i \in Saves : SlashSave(ops[i].raised) = "saved"

IsPrefix(a, b) == Len(a) <= Len(b) /\ SubSeq(b, 1, Len(a)) = a

\* a step of one of the given operations
OpStep(kinds) == Len(ops') = Len(ops) + 1 /\ ops'[Len(ops')].op \in kinds

\* the steps on the open session object: add, save and the appends of the
\* REPL loop (open and new make another object)
OnSession == OpStep({"add", "save", "append"})

\* C22 as claimed: the message list of an open session only grows by
\* appending at its end, and an existing log is never shortened except by
\* rewrite (save).
C22_OnlyAppends ==
    [][ /\ OnSession => IsPrefix(messages, messages')
        /\ OpStep({"open", "add", "append", "new"}) => IsPrefix(file, file')
      ]_vars

\* C22 as amended: add and the appends of the REPL loop put one message at
\* the end of the list of the open session, save leaves the list as it is,
\* and an existing log is never shortened except by rewrite (save) and by
\* new, which empties it.
C22_OnlyAppendsExceptNew ==
    [][ /\ OpStep({"add", "append"}) =>
              messages' = Append(messages, ops'[Len(ops')].msg)
        /\ OpStep({"save"}) => messages' = messages
        /\ OpStep({"open", "add", "append"}) => IsPrefix(file, file')
        /\ OpStep({"new"}) => file' \in {file, <<>>}
      ]_vars

\* a message was added to a session, the REPL loop appended a tool result,
\* and the session was saved
C22_Witness ==
    /\ Len(ops) = 4
    /\ ops[2].op = "add"
    /\ ops[3].op = "append"
    /\ ops[4].op = "save"
    /\ messages = <<ops[2].msg, ToolResult>>

\* the values of the lines of a log, in file order
Values(text) ==
    LET lines == SplitLines(text)
    IN  [i \in 1..Len(lines) |-> Parse(StripTok(lines[i])).v]

\* the last operation was a save that completed
SaveCompleted == ops # <<>> /\ LastOp.op = "save" /\ LastOp.outcome = "ok"

\* C23: after a completed save the log holds exactly the in-memory messages
\* in order, whatever it held before; loading it yields the same sequence,
\* and a second save leaves the log unchanged.
C23_SaveRoundTrip ==
    SaveCompleted =>
        /\ Values(file) = messages
        /\ ~LoadRaises(file)
        /\ Load(file, clock) = messages
        /\ Rewrite(file, messages, "ok").file = file

\* the operation before the last one was a new that returned a session
AfterNew ==
    /\ Len(ops) >= 2
    /\ ops[Len(ops) - 1].op = "new"
    /\ ~ops[Len(ops) - 1].raised

----------------------------------------------------------------------------
(* Properties of the pipeline and of the orchestrator, checked under SpecE2E *)

\* the _chat_stream calls of a stage in the running session
ChatsOf(stage) == SelectSeq(chats, LAMBDA c : c.stage = stage)

\* the session is running or has just returned
InSession == run.stage \in {"planner", "coder", "gate", "reviewer", "returned"}

\* a write_file or edit_file call of the stage list h returned success
Changed(h) ==
    \E i \in 1..Len(h) :
        h[i].role = "tool" /\ h[i].tool \in {"write_file", "edit_file"} /\ h[i].content = <<"ok">>

\* C25: the Reviewer stage runs if and only if the Coder stage produced at
\* least one file creation or edit: a Coder stage whose write and edit calls
\* all failed, or that made none, is followed by no Reviewer model call.
C25_ReviewerIffFilesChanged ==
    InSession =>
        /\ (run.stage = "reviewer" \/ ChatsOf("reviewer") # <<>>) => Changed(run.coder_history)
        /\ (run.stage = "returned" /\ Changed(run.coder_history)) => ChatsOf("reviewer") # <<>>

\* C26: when the model call of a stage fails, the stage stops at once and no
\* later stage runs: a failed call is the last model call of the session.
C26_FailedCallIsLast ==
    \A i \in 1..Len(chats) : ~chats[i].ok => i = Len(chats)

Rank(stage) == CASE stage = "planner" -> 1 [] stage = "coder" -> 2 [] stage = "reviewer" -> 3

\* the model calls cs come in the order Planner, Coder, Reviewer; the
\* Planner makes one call, without tools, and asks for no tool
StageOrder(cs) ==
    /\ \A i, j \in 1..Len(cs) : i < j => Rank(cs[i].stage) <= Rank(cs[j].stage)
    /\ \A i \in 1..Len(cs) :
          cs[i].stage = "planner" => (i = 1 /\ ~cs[i].tools /\ cs[i].tool = "")
    /\ \A i \in 2..Len(cs) : cs[i].stage # "planner"

\* what the Coder's list starts with: its prompt, the goal, and a plan text
CoderSeeded(r) ==
    r.coder_history # <<>> =>
        /\ SubSeq(r.coder_history, 1, 2) =
              <<M("system", <<"CODER_PROMPT">>, ""), M("user", <<"Goal:">> \o r.goal, "")>>
        /\ r.coder_history[3].role = "assistant"
        /\ r.coder_history[3].content \in
              {<<"Plan:", "plan">>, <<"Plan:", "(No plan produced)">>}

\* what the Reviewer's list starts with: its prompt and the paths and
\* contents of the created and the edited files, as they are on disk d
ReviewerSeed(r, d) ==
    <<M("system", <<"REVIEWER_PROMPT">>, ""),
      M("user", <<"Please review the following changes">>
                  \o Parts("### Created:", r.created_files_session, d)
                  \o Parts("### Edited:",
                           [i \in 1..Len(r.edited_files_session) |->
                               r.edited_files_session[i][1]], d), "")>>

\* C27: the stages run in the order Planner, Coder, Reviewer, each on its
\* own message list: the Planner makes a single _chat_stream call without
\* tools, a step that appends to one stage's list leaves the lists of the
\* other stages as they are, and the lists of the Coder and of the Reviewer
\* start from the planner's text and from the contents of the changed files.
C27_StagesInOrderOnOwnLists ==
    [][ run.stage \in {"planner", "coder", "gate", "reviewer"} =>
          /\ StageOrder(chats')
          /\ run'.planner_messages = run.planner_messages
          /\ run.planner_messages = PlannerMessages(run.goal)
          /\ IsPrefix(run.coder_history, run'.coder_history)
          /\ run'.coder_history # run.coder_history =>
                (run.stage \in {"planner", "coder"}
                 /\ run'.reviewer_history = run.reviewer_history)
          /\ run'.reviewer_history # run.reviewer_history =>
                (run.stage \in {"gate", "reviewer"}
                 /\ run'.coder_history = run.coder_history)
          /\ CoderSeeded(run')
          /\ (run.stage = "gate" /\ run'.stage = "reviewer") =>
                run'.reviewer_history = ReviewerSeed(run, disk)
          /\ (run.stage = "reviewer" /\ run'.stage # "raised") =>
                IsPrefix(run.reviewer_history, run'.reviewer_history)
      ]_vars

\* the Coder wrote a file and gave its final answer, the Reviewer was given
\* the file's content and edited the file
C27_Witness ==
    /\ run.stage = "reviewer"
    /\ Len(chats) = 4
    /\ chats[2].tool = "write_file"
    /\ chats[3].stage = "coder"
    /\ chats[4].tool = "edit_file"
    /\ Len(run.coder_history) = 5
    /\ Len(run.reviewer_history) = 4
    /\ run.reviewer_history[2].content =
          <<"Please review the following changes", "### Created:", "a.py", "w">>
    /\ disk[Path] = File(<<"w", "e">>)

\* the validations run so far
Validations == Cardinality({i \in 1..Len(commands) : commands[i] = "pytest -q"})

\* the calls of run_multi_agent_session made so far: each validation follows
\* a call that returned, and one call is running or has raised
Runs == Validations + (IF orch.pc \in {"pipeline", "raised"} THEN 1 ELSE 0)

\* run_end_to_end_session has ended
Ended == orch.pc \in {"done", "raised"}

\* C28: for one goal the orchestrator runs the pipeline at most
\* 1 + max_retries times: at most twice when max_retries = 1, and exactly
\* once when max_retries = 0, whatever validation reports.
C28_RunsWithinRetries ==
    /\ 1 <= Runs
    /\ Runs <= 1 + orch.max_retries
    /\ orch.max_retries = 1 => Runs <= 2
    /\ orch.max_retries = 0 => Runs = 1

\* with max_retries = 1 the first validation failed, the pipeline ran a
\* second time, the second validation failed too and the orchestrator ended
C28_Witness ==
    /\ orch.pc = "done"
    /\ orch.max_retries = 1
    /\ Runs = 2
    /\ ~orch.ok

\* a validation has been run and classified
Validated == Validations > 0

\* the test-runner output is an error result of run_shell_command
IsError(text) == StartsWith(text, <<"(x)", " ", "E", "r", "r", "o", "r", ":">>)

\* the text contains the words, whatever the case of its letters
Mentions(text, words) == IsSubstring(words, Lower(text))

\* C29 as claimed: the battery is classified not ok exactly when the
\* test-runner output is an error that does not contain "no tests ran",
\* whatever the formatter and the linter returned.
C29_NotOkIffTestError ==
    Validated =>
        (~orch.ok <=>
            (/\ IsError(orch.outputs.pytest)
             /\ ~Mentions(orch.outputs.pytest,
                          <<"n", "o", " ", "t", "e", "s", "t", "s", " ", "r", "a", "n">>)))

\* C29 as amended: the battery is classified not ok exactly when the
\* test-runner output is an error that contains neither "no tests ran" nor
\* "not found", whatever the formatter and the linter returned.
C29_NotOkIffTestErrorFound ==
    Validated =>
        (~orch.ok <=>
            (/\ IsError(orch.outputs.pytest)
             /\ ~Mentions(orch.outputs.pytest,
                          <<"n", "o", " ", "t", "e", "s", "t", "s", " ", "r", "a", "n">>)
             /\ ~Mentions(orch.outputs.pytest, <<"n", "o", "t", " ", "f", "o", "u", "n", "d">>)))

\* the formatter and the linter failed and the test runner failed with
\* "not found": the battery is classified ok
C29_Witness ==
    /\ Validated
    /\ orch.ok
    /\ IsError(orch.outputs.black)
    /\ IsError(orch.outputs.ruff)
    /\ IsError(orch.outputs.pytest)
    /\ Mentions(orch.outputs.pytest, <<"n", "o", "t", " ", "f", "o", "u", "n", "d">>)

\* the positions of a command in the command log
At(cmd) == {i \in 1..Len(commands) : commands[i] = cmd}

\* the version-control commands in the command log
GitAt == {i \in 1..Len(commands) :
            commands[i] \in {"git rev-parse --is-inside-work-tree", "git init",
                             "git add -A", "git commit"}}

\* C30: unless commit is disabled, the orchestrator attempts the commit
\* exactly once per goal, after the last validation, whether or not
\* validation ever passed; with commit disabled it runs no version-control
\* command (stated where run_end_to_end_session has ended).
C30_CommitOncePerGoal ==
    /\ (Ended /\ orch.commit) =>
          /\ Cardinality(At("git commit")) = 1
          /\ \A i \in At("git commit"), j \in At("pytest -q") : j < i
    /\ ~orch.commit => GitAt = {}

\* the commands of the commit step that were run
GitRun == DOMAIN orch.git

\* the panels printed with the title
PanelsOf(title) == SelectSeq(orch.printed, LAMBDA p : p.title = title)

\* C31: a commit step that returns an error result (init, add or commit) is
\* reported and does not stop the orchestrator: add and commit are run
\* whatever the steps before them returned, the result of every step that was
\* run is printed, and the E2E result is printed last and tells the outcome of
\* the last validation only.
C31_CommitFailureReported ==
    (orch.pc = "done" /\ orch.commit) =>
        /\ {"git add -A", "git commit"} \subseteq GitRun
        /\ \A c \in GitRun \ {"git rev-parse --is-inside-work-tree"} :
              /\ Len(PanelsOf(c)) = 1
              /\ PanelsOf(c)[1].text = orch.git[c]
        /\ IsError(orch.git["git commit"]) => PanelsOf("git commit")[1].style = "red"
        /\ orch.printed[Len(orch.printed)] =
              Panel("E2E Result",
                    IF AllOk(orch.outputs.pytest)
                      THEN "All validations passed" ELSE "Validations still failing",
                    IF AllOk(orch.outputs.pytest) THEN "green" ELSE "red")

\* no repository was found, init, add and commit all returned an error, and
\* the orchestrator ended with the result of a validation that passed
C31_Witness ==
    /\ orch.pc = "done"
    /\ orch.commit
    /\ GitRun = {"git rev-parse --is-inside-work-tree", "git init", "git add -A", "git commit"}
    /\ \A c \in GitRun : IsError(orch.git[c])
    /\ Len(orch.printed) = 4
    /\ orch.printed[4].text = "All validations passed"

\* the commands of one validation battery
Battery == <<"black .", "ruff check . --fix", "pytest -q">>

\* a ends b
IsSuffix(a, b) == Len(a) <= Len(b) /\ SubSeq(b, Len(b) - Len(a) + 1, Len(b)) = a

\* the step calls run_multi_agent_session again
StartsRun == run.stage # "planner" /\ run'.stage = "planner"

\* the step decides what follows a pipeline run: a retry or the commit step
Decides == StartsRun \/ (orch.pc = "pipeline" /\ orch'.pc = "commit")

\* C32: a retry is started only when the validation just before it was not
\* ok and retries remain; between the return of a pipeline run and the
\* decision that follows it one full validation battery is run; the retry goal
\* is the original goal followed by the failure transcript of that
\* validation; and no pipeline run is started after a validation that was ok.
C32_RetryOnlyAfterFailedValidation ==
    [][ /\ Decides =>
              /\ run.stage = "returned"
              /\ commands' = commands \o Battery
              /\ orch'.ok = AllOk(orch'.outputs.pytest)
        /\ StartsRun =>
              /\ ~orch'.ok
              /\ orch.retries < orch.max_retries
              /\ orch'.retries = orch.retries + 1
              /\ IsPrefix(Goal, run'.goal)
              /\ IsSuffix(orch'.outputs.pytest, run'.goal)
              /\ Len(run'.goal) > Len(Goal) + Len(orch'.outputs.pytest)
        /\ (Decides /\ orch'.ok) => run' = NoRun
        /\ orch.ok => run' = NoRun
      ]_vars

\* the first validation failed with retries left: the pipeline runs again on
\* the goal followed by the test runner's error text
C32_Witness ==
    /\ orch.retries = 1
    /\ run.stage = "planner"
    /\ IsError(orch.outputs.pytest)
    /\ IsPrefix(Goal, run.goal)
    /\ IsSuffix(<<"b", "a", "d">>, run.goal)

\* the commands run since the last validation: those of the commit step
CommitStep ==
    LET last == CHOOSE i \in At("pytest -q") : \A j \in At("pytest -q") : j <= i
    IN  SubSeq(commands, last + 1, Len(commands))

\* the repository check reported a repository
RepositoryReported == Mentions(orch.git["git rev-parse --is-inside-work-tree"], <<"t", "r", "u", "e">>)

\* C33: the commit step runs the repository check first, then init only if
\* the check reported no repository, then add -A, then commit: init is never
\* run when the check reported a repository, and add and commit are run in
\* both cases.
C33_CommitStepOrder ==
    (orch.pc = "done" /\ orch.commit) =>
        /\ RepositoryReported =>
              CommitStep = <<"git rev-parse --is-inside-work-tree", "git add -A", "git commit">>
        /\ ~RepositoryReported =>
              CommitStep = <<"git rev-parse --is-inside-work-tree", "git init",
                             "git add -A", "git commit">>

\* the check reported a repository, and add and commit were run without init
C33_Witness ==
    /\ orch.pc = "done"
    /\ orch.commit
    /\ orch.git["git rev-parse --is-inside-work-tree"] = <<"t", "r", "u", "e">>
    /\ CommitStep = <<"git rev-parse --is-inside-work-tree", "git add -A", "git commit">>
    /\ IsError(orch.git["git add -A"])

\* C39: the validation battery is classified ok only if the test runner ran
\* to the end of its output with exit code zero or reported that no tests
\* exist: a test run that was paused at a prompt, or that could not be
\* launched, is never classified ok.
C39_OkOnlyIfTestsCompleted ==
    (Validated /\ orch.ok) =>
        \/ orch.tests.kind = "output"
        \/ /\ orch.tests.kind = "error"
           /\ Mentions(orch.outputs.pytest,
                       <<"n", "o", " ", "t", "e", "s", "t", "s", " ", "r", "a", "n">>)

----------------------------------------------------------------------------
(* Further properties of the dispatch loops, checked under SpecLoop *)

\* a request of this invocation of the loop failed with APIConnectionError
ConnectionErrorShown == "Connection error" \in reported

\* C35: after a connectivity error the loop sends no further request. The
\* _chat_stream call in which the error occurs sends nothing after the failed
\* request (its only second request is the fallback after a stream that
\* failed otherwise), the loop stops, and a stopped loop sends no request and
\* starts no iteration; the REPL's next user turn starts the loop anew.
C35_NoRequestAfterConnectionError ==
    [][ /\ (~ConnectionErrorShown /\ ConnectionErrorShown') =>
              /\ pc' = "stopped"
              /\ requests' = requests + 1 + (deviations' - deviations)
              /\ iteration' = iteration + 1
        /\ ConnectionErrorShown =>
              /\ pc = "stopped"
              /\ \/ requests' = requests /\ iteration' = iteration
                 \/ loop = "repl" /\ requests' = 0 /\ iteration' = 0 /\ reported' = {}
      ]_vars

\* the second request of the loop, sent after a round of tool calls, failed
\* with a connectivity error and the loop stopped after two requests
C35_Witness ==
    /\ ConnectionErrorShown
    /\ pc = "stopped"
    /\ iteration = 2
    /\ requests = 2
    /\ Len(history) > Len(InitialHistory(loop))

----------------------------------------------------------------------------
(* Properties of the dispatch loops on the whole tool set, checked under SpecTools *)

\* the tool message that answers the call k of the round at position i
Answer(i, k) == history[i + k]

\* C34: a tool that fails while executing (file cannot be written, file to
\* edit is missing, invalid edit mode, code file of unsupported type, project
\* structure cannot be created) yields a tool message with error text for
\* that call and the loop goes on: no exception leaves the loop and no call is
\* left without a result.
C34_ToolFailureBecomesToolMessage ==
    /\ pc # "crashed"
    /\ \A i \in CallRounds : \A k \in 1..Len(history[i].tool_calls) :
         LET c == history[i].tool_calls[k] IN
         (c.arguments \in FaultsOf(c.name) /\ TakenUp(i, k)) =>
            /\ i + k <= Len(history)
            /\ Answer(i, k).role = "tool"
            /\ Answer(i, k).tool_call_id = c.id
            /\ Answer(i, k).content = "error"

\* C37: every tool whose schema is given to the model, plan_task included,
\* has a handler in each dispatch loop: the tool message that answers a call
\* to an advertised tool never holds the unknown-tool text.
C37_AdvertisedToolHasHandler ==
    \A i \in CallRounds : \A k \in 1..Len(history[i].tool_calls) :
        LET c == history[i].tool_calls[k] IN
        (c.name \in Advertised /\ i + k <= Len(history)) =>
            Answer(i, k).content # "unknown_tool"

----------------------------------------------------------------------------
(* Property of the pipes of run_shell_command, checked under SpecPipes *)

\* C36: for every command that exits on its own and prints no prompt marker,
\* run_shell_command eventually returns, whatever amounts the command writes
\* to stdout and to stderr: the reader never waits forever on a process
\* blocked on a full pipe.
C36_ShellCommandReturns == <>(results # <<>>)

----------------------------------------------------------------------------
(* Property of the sessions of the REPL, checked under SpecRepl *)

\* the message is the system prompt
IsSystemPrompt(m) ==
    /\ m.type = "dict"
    /\ Role \in DOMAIN m.d
    /\ Content \in DOMAIN m.d
    /\ m.d[Role] = PyStr(System)
    /\ m.d[Content] = PyStr(SystemPrompt)

\* C38: in the REPL, whenever the model is called with the session history,
\* the first message of that history is the system prompt, after any
\* sequence of start-up, /new, /session switches and user turns.
C38_SystemPromptFirst ==
    \A i \in 1..Len(chats) : IsSystemPrompt(chats[i][1])

====
